---- MODULE Spec2Model ----
(***************************************************************************)
(* Flip detection, investor aggregation and outreach ranking of the        *)
(* Georgia house-flip pipeline (src/src/analyzer.py, src/src/exporter.py). *)
(*                                                                         *)
(* A DataFrame is a sequence of records; a row's position in the input     *)
(* sequence is its index label.  Floating-point values are exact           *)
(* rationals <<n, d>> with d >= 0; d = 0 encodes the IEEE results of a     *)
(* division by zero: <<1,0>> = inf, <<-1,0>> = -inf, <<0,0>> = nan.        *)
(***************************************************************************)
EXTENDS Integers, Sequences, FiniteSets, TLC

VARIABLES pc, config, tie_order, df, flips_df, pairs, investor_stats,
          contact_df, error,
          now, retention_days, index, historical_dir,
          county_config, result, property_sales,
          max_workers, futures, all_data, errors, run_pc, called,
          save_status, output_dir, exit_code

\* The archiver: the clock, the configured retention, the content of
\* historical_index.json and the files of data/historical.
archive_vars == <<now, retention_days, index, historical_dir>>

\* The scraper: its county, the frame get_recent_sales returned last, and the
\* rows of the property_sales table.
scraper_vars == <<county_config, result, property_sales>>

\* run_pipeline: the worker limit, the state and result of each county's
\* scrape, the two lists scrape_counties builds, the position in
\* run_pipeline, the stages called, the outcome of save_results, the files of
\* the output directory and the exit code.
run_vars == <<max_workers, futures, all_data, errors, run_pc, called,
              save_status, output_dir, exit_code>>

script_vars == <<archive_vars, scraper_vars, run_vars>>

vars == <<pc, config, tie_order, df, flips_df, pairs, investor_stats,
          contact_df, error, script_vars>>

(***************************************************************************)
(* Bounds of the model.                                                    *)
(***************************************************************************)
MaxTx == 3
MaxFlips == 3

(***************************************************************************)
(* Integer and rational helpers.                                           *)
(***************************************************************************)
Abs(x) == IF x < 0 THEN -x ELSE x

Sign(x) == IF x < 0 THEN -1 ELSE IF x > 0 THEN 1 ELSE 0

RECURSIVE GCD(_, _)
GCD(a, b) == IF b = 0 THEN a ELSE GCD(b, a % b)

\* n / d as a float: a reduced fraction with positive denominator, or
\* inf / -inf / nan when d = 0 (numpy true division of scalars).
Div(n, d) ==
    IF d = 0 THEN <<Sign(n), 0>>
    ELSE LET g == GCD(Abs(n), Abs(d))
         IN  <<(Sign(d) * n) \div g, Abs(d) \div g>>

IsNan(a) == a = <<0, 0>>

RatAdd(a, b) ==
    IF IsNan(a) \/ IsNan(b) THEN <<0, 0>>
    ELSE IF a[2] = 0 /\ b[2] = 0 THEN (IF a = b THEN a ELSE <<0, 0>>)
    ELSE IF a[2] = 0 THEN a
    ELSE IF b[2] = 0 THEN b
    ELSE Div(a[1] * b[2] + b[1] * a[2], a[2] * b[2])

\* a * (n / d) for a float a and the constant n / d, d > 0.
RatScale(a, n, d) ==
    IF a[2] = 0 THEN <<Sign(a[1] * n), 0>> ELSE Div(a[1] * n, a[2] * d)

\* a < b; false when either is nan.  Finite values are compared by whole
\* part, then by remainder.
RatLess(a, b) ==
    /\ ~IsNan(a) /\ ~IsNan(b)
    /\ IF a[2] = 0 \/ b[2] = 0 THEN a[1] * b[2] < b[1] * a[2]
       ELSE \/ a[1] \div a[2] < b[1] \div b[2]
            \/ /\ a[1] \div a[2] = b[1] \div b[2]
               /\ (a[1] % a[2]) * b[2] < (b[1] % b[2]) * a[2]

RECURSIVE SumInt(_)
SumInt(s) == IF s = <<>> THEN 0 ELSE Head(s) + SumInt(Tail(s))

RECURSIVE SumRat(_)
SumRat(s) == IF s = <<>> THEN <<0, 1>> ELSE RatAdd(Head(s), SumRat(Tail(s)))

\* pandas 'mean' of an integer column / of a float column (non-empty).
MeanInt(s) == Div(SumInt(s), Len(s))

MeanRat(s) == LET t == SumRat(s) IN RatScale(t, 1, Len(s))

(***************************************************************************)
(* Dates.  A sale_date is a calendar date <<year, month, day>> (a          *)
(* Timestamp at midnight); subtracting two gives a Timedelta whose .days   *)
(* is the difference of the proleptic Gregorian day numbers.               *)
(***************************************************************************)
IsLeap(y) == (y % 4 = 0) /\ ((y % 100 # 0) \/ (y % 400 = 0))

DaysInMonth(y, m) ==
    IF m = 2 THEN (IF IsLeap(y) THEN 29 ELSE 28)
    ELSE IF m \in {4, 6, 9, 11} THEN 30 ELSE 31

RECURSIVE DaysBeforeMonth(_, _)
DaysBeforeMonth(y, m) ==
    IF m = 1 THEN 0 ELSE DaysBeforeMonth(y, m - 1) + DaysInMonth(y, m - 1)

ToOrdinal(date) ==
    LET y == date[1] - 1
    IN  y * 365 + (y \div 4) - (y \div 100) + (y \div 400)
          + DaysBeforeMonth(date[1], date[2]) + date[3]

\* (a - b).days
DaysBetween(a, b) == ToOrdinal(a) - ToOrdinal(b)

(***************************************************************************)
(* FlipAnalyzer.__init__: the default thresholds, and a caller-supplied    *)
(* configuration.                                                          *)
(***************************************************************************)
DefaultConfig ==
    [min_hold_days |-> 30, max_hold_days |-> 365,
     min_profit |-> 70000, max_profit |-> 150000]

CustomConfig ==
    [min_hold_days |-> 0, max_hold_days |-> 200,
     min_profit |-> 40000, max_profit |-> 300000]

Configs == {DefaultConfig, CustomConfig}

(***************************************************************************)
(* Input transactions.  property_sales rows: a chain of title per          *)
(* property, so the parties of a sale are determined by its date.          *)
(***************************************************************************)
D1 == <<2023, 1, 1>>
D2 == <<2023, 5, 1>>
D3 == <<2024, 1, 1>>

Dates == {D1, D2, D3}

Prices == {0, 300000, 360000, 400000}

\* groupby iterates the keys in ascending order.
PropertyOrder == <<"P1", "P2">>

BuyerOn(date) ==
    IF date = D1 THEN "Acme LLC" ELSE IF date = D2 THEN "Jane Doe"
    ELSE "Oak Trust"

SellerOn(date) ==
    IF date = D1 THEN "John Smith" ELSE IF date = D2 THEN "Acme LLC"
    ELSE "Jane Doe"

AddressOf(pid, date) ==
    IF pid = "P1"
    THEN (IF date = D1 THEN "12 Oak St, Atlanta, GA"
          ELSE "12 Oak Street, Atlanta, GA")
    ELSE "9 Elm Ave, Marietta, GA"

CountyOf(pid) == IF pid = "P1" THEN "Fulton County" ELSE "Cobb County"

Tx(pid, date, price) ==
    [property_id |-> pid, address |-> AddressOf(pid, date),
     sale_date |-> date, sale_price |-> price, buyer |-> BuyerOn(date),
     seller |-> SellerOn(date), county |-> CountyOf(pid)]

TxUniverse ==
    {Tx("P1", d, p) : d \in Dates, p \in Prices}
      \cup {Tx("P2", D1, 300000), Tx("P2", D2, 400000)}

SeqsUpTo(S, n) == UNION {[1..k -> S] : k \in 0..n}

(***************************************************************************)
(* FlipAnalyzer.identify_flips                                             *)
(***************************************************************************)
\* A group that is the whole frame, whatever the key.
GroupRowsAll(d, pid, i) == [n \in 1..Len(d) |-> n]

\* The rows of one groupby('property_id') group, as index labels in input
\* order.
RECURSIVE GroupRows(_, _, _)
GroupRows(d, pid, i) ==
    IF i > Len(d) THEN <<>>
    ELSE (IF d[i].property_id = pid THEN <<i>> ELSE <<>>)
           \o GroupRows(d, pid, i + 1)

\* Insert row x into the rows s already sorted by sale_date.  The sort
\* kind is quicksort, which does not promise the order of equal keys:
\* tie is "stable" (equal dates keep input order) or "reversed".
RECURSIVE InsertRow(_, _, _, _)
InsertRow(d, s, x, tie) ==
    IF s = <<>> THEN <<x>>
    ELSE LET kx == ToOrdinal(d[x].sale_date)
             kh == ToOrdinal(d[Head(s)].sale_date)
         IN  IF kx < kh \/ (kx = kh /\ tie = "reversed")
             THEN <<x>> \o s
             ELSE <<Head(s)>> \o InsertRow(d, Tail(s), x, tie)

\* group.sort_values('sale_date')
RECURSIVE SortValues(_, _, _)
SortValues(d, rows, tie) ==
    IF rows = <<>> THEN <<>>
    ELSE InsertRow(d, SortValues(d, SubSeq(rows, 1, Len(rows) - 1), tie),
                   rows[Len(rows)], tie)

HoldDays(buy, sell) == DaysBetween(sell.sale_date, buy.sale_date)

Profit(buy, sell) == sell.sale_price - buy.sale_price

\* The criteria without the upper profit bound.
MeetsCriteriaNoMaxProfit(cfg, hold_days, profit) ==
    /\ cfg.min_hold_days <= hold_days /\ hold_days <= cfg.max_hold_days
    /\ cfg.min_profit <= profit

\* The criteria without the lower profit bound.
MeetsCriteriaNoMinProfit(cfg, hold_days, profit) ==
    /\ cfg.min_hold_days <= hold_days /\ hold_days <= cfg.max_hold_days
    /\ profit <= cfg.max_profit

\* The flip criteria of the if statement.
MeetsCriteria(cfg, hold_days, profit) ==
    /\ cfg.min_hold_days <= hold_days /\ hold_days <= cfg.max_hold_days
    /\ cfg.min_profit <= profit /\ profit <= cfg.max_profit

\* The dict with roi taken over the sell price.
MakeFlipRoiOnSell(pid, buy, sell) ==
    [property_id |-> pid, address |-> buy.address,
     buy_date |-> buy.sale_date, buy_price |-> buy.sale_price,
     buyer |-> buy.buyer, sell_date |-> sell.sale_date,
     sell_price |-> sell.sale_price, seller |-> sell.seller,
     hold_days |-> HoldDays(buy, sell), profit |-> Profit(buy, sell),
     roi |-> RatScale(Div(Profit(buy, sell), sell.sale_price), 100, 1),
     county |-> buy.county]

\* The dict with address and county taken from the sell row.
MakeFlipSellAddress(pid, buy, sell) ==
    [property_id |-> pid, address |-> sell.address,
     buy_date |-> buy.sale_date, buy_price |-> buy.sale_price,
     buyer |-> buy.buyer, sell_date |-> sell.sale_date,
     sell_price |-> sell.sale_price, seller |-> sell.seller,
     hold_days |-> HoldDays(buy, sell), profit |-> Profit(buy, sell),
     roi |-> RatScale(Div(Profit(buy, sell), buy.sale_price), 100, 1),
     county |-> sell.county]

\* The dict appended to flips.
MakeFlip(pid, buy, sell) ==
    [property_id |-> pid, address |-> buy.address,
     buy_date |-> buy.sale_date, buy_price |-> buy.sale_price,
     buyer |-> buy.buyer, sell_date |-> sell.sale_date,
     sell_price |-> sell.sale_price, seller |-> sell.seller,
     hold_days |-> HoldDays(buy, sell), profit |-> Profit(buy, sell),
     roi |-> RatScale(Div(Profit(buy, sell), buy.sale_price), 100, 1),
     county |-> buy.county]

\* range(len(group) - 2): the loop stops one pair early.
LoopPositionsShort(g) == IF Len(g) < 2 THEN {} ELSE 1..(Len(g) - 2)

\* The positions i of the sorted group whose pair is examined by the
\* inner loop: range(len(group) - 1), the sell being at position i + 1.
LoopPositions(g) == IF Len(g) < 2 THEN {} ELSE 1..(Len(g) - 1)

SellPosition(g, i) == i + 1

\* Every later row of the group as the sell of row g[i].
RECURSIVE LaterPairs(_, _, _, _, _, _)
LaterPairs(d, cfg, pid, g, i, j) ==
    IF j > Len(g) THEN <<>>
    ELSE (IF MeetsCriteria(cfg, HoldDays(d[g[i]], d[g[j]]),
                           Profit(d[g[i]], d[g[j]]))
          THEN <<[property_id |-> pid, buy |-> g[i], sell |-> g[j]]>>
          ELSE <<>>)
           \o LaterPairs(d, cfg, pid, g, i, j + 1)

\* All ordered pairs of the group instead of the consecutive ones.
RECURSIVE GroupPairsAllLater(_, _, _, _, _)
GroupPairsAllLater(d, cfg, pid, g, i) ==
    IF i >= Len(g) THEN <<>>
    ELSE LaterPairs(d, cfg, pid, g, i, i + 1)
           \o GroupPairsAllLater(d, cfg, pid, g, i + 1)

\* The pairs of one group that pass the criteria, in loop order: the
\* group key with the index labels of the buy and the sell row.
RECURSIVE GroupPairs(_, _, _, _, _)
GroupPairs(d, cfg, pid, g, i) ==
    IF i \notin LoopPositions(g) THEN <<>>
    ELSE LET b == g[i]
             s == g[SellPosition(g, i)]
         IN  (IF MeetsCriteria(cfg, HoldDays(d[b], d[s]), Profit(d[b], d[s]))
              THEN <<[property_id |-> pid, buy |-> b, sell |-> s]>>
              ELSE <<>>)
               \o GroupPairs(d, cfg, pid, g, i + 1)

\* All qualifying pairs, group after group in key order.
RECURSIVE AllPairs(_, _, _, _)
AllPairs(d, cfg, tie, k) ==
    IF k > Len(PropertyOrder) THEN <<>>
    ELSE GroupPairs(d, cfg, PropertyOrder[k],
                    SortValues(d, GroupRows(d, PropertyOrder[k], 1), tie), 1)
           \o AllPairs(d, cfg, tie, k + 1)

\* The rows each appended dict is built from.
identify_flips_pairs(d, cfg, tie) ==
    IF d = <<>> THEN <<>> ELSE AllPairs(d, cfg, tie, 1)

identify_flips(d, cfg, tie) ==
    LET ps == identify_flips_pairs(d, cfg, tie)
    IN  [n \in 1..Len(ps) |->
           MakeFlip(ps[n].property_id, d[ps[n].buy], d[ps[n].sell])]

(***************************************************************************)
(* FlipAnalyzer.analyze_investors                                          *)
(***************************************************************************)
\* groupby('buyer') iterates the keys in ascending order.
BuyerOrder == <<"Acme LLC", "Jane Doe", "Oak Trust">>

Column(rows, f) == [n \in 1..Len(rows) |-> rows[n][f]]

\* The rows of one groupby('buyer') group.
\* A group that holds the flips of every buyer.
BuyerGroupAll(flips, name) == flips

BuyerGroup(flips, name) == SelectSeq(flips, LAMBDA f : f.buyer = name)

\* agg with 'nunique' in place of 'count'.
InvestorRowNunique(name, g) ==
    [investor_name |-> name,
     total_flips |-> Cardinality({g[n].property_id : n \in DOMAIN g}),
     total_profit |-> SumInt(Column(g, "profit")),
     avg_profit_per_flip |-> MeanInt(Column(g, "profit")),
     avg_hold_days |-> MeanInt(Column(g, "hold_days")),
     avg_roi |-> MeanRat(Column(g, "roi"))]

\* agg with avg_roi as the ratio of the aggregate sums.
InvestorRowRatioRoi(name, g) ==
    [investor_name |-> name,
     total_flips |-> Len(Column(g, "property_id")),
     total_profit |-> SumInt(Column(g, "profit")),
     avg_profit_per_flip |-> MeanInt(Column(g, "profit")),
     avg_hold_days |-> MeanInt(Column(g, "hold_days")),
     avg_roi |-> RatScale(Div(SumInt(Column(g, "profit")),
                              SumInt(Column(g, "buy_price"))), 100, 1)]

\* agg of one group, with the flattened column names.
InvestorRow(name, g) ==
    [investor_name |-> name,
     total_flips |-> Len(Column(g, "property_id")),
     total_profit |-> SumInt(Column(g, "profit")),
     avg_profit_per_flip |-> MeanInt(Column(g, "profit")),
     avg_hold_days |-> MeanInt(Column(g, "hold_days")),
     avg_roi |-> MeanRat(Column(g, "roi"))]

\* groupby(...).agg(...).reset_index(): one row per buyer that occurs.
RECURSIVE GroupByBuyer(_, _)
GroupByBuyer(flips, k) ==
    IF k > Len(BuyerOrder) THEN <<>>
    ELSE LET g == BuyerGroup(flips, BuyerOrder[k])
         IN  (IF g = <<>> THEN <<>> ELSE <<InvestorRow(BuyerOrder[k], g)>>)
               \o GroupByBuyer(flips, k + 1)

\* The sort key of investor_stats.sort_values(..., ascending=False).
InvestorSortKey(row) == row.total_flips

RECURSIVE InsertInvestor(_, _, _)
InsertInvestor(s, x, tie) ==
    IF s = <<>> THEN <<x>>
    ELSE LET kx == InvestorSortKey(x)
             kh == InvestorSortKey(Head(s))
         IN  IF kx > kh \/ (kx = kh /\ tie = "reversed")
             THEN <<x>> \o s
             ELSE <<Head(s)>> \o InsertInvestor(Tail(s), x, tie)

RECURSIVE SortInvestors(_, _)
SortInvestors(rows, tie) ==
    IF rows = <<>> THEN <<>>
    ELSE InsertInvestor(SortInvestors(SubSeq(rows, 1, Len(rows) - 1), tie),
                        rows[Len(rows)], tie)

analyze_investors(flips, tie) ==
    IF flips = <<>> THEN <<>>
    ELSE SortInvestors(GroupByBuyer(flips, 1), tie)

(***************************************************************************)
(* Strings.  The text of a str is the sequence of its characters; Chars    *)
(* gives it for the names, addresses and counties of the model (the empty  *)
(* sequence for '').                                                       *)
(***************************************************************************)
Chars(str) ==
    CASE str = "Acme LLC" ->
          <<"A", "c", "m", "e", " ", "L", "L", "C">>
      [] str = "Jane Doe" ->
          <<"J", "a", "n", "e", " ", "D", "o", "e">>
      [] str = "Oak Trust" ->
          <<"O", "a", "k", " ", "T", "r", "u", "s", "t">>
      [] str = "Vincent Price" ->
          <<"V", "i", "n", "c", "e", "n", "t", " ", "P", "r", "i", "c",
          "e">>
      [] str = "ESTATE HOLDINGS" ->
          <<"E", "S", "T", "A", "T", "E", " ", "H", "O", "L", "D", "I", "N",
          "G", "S">>
      [] str = "Family Trust LLC" ->
          <<"F", "a", "m", "i", "l", "y", " ", "T", "r", "u", "s", "t", " ",
          "L", "L", "C">>
      [] str = "Estate Corp" ->
          <<"E", "s", "t", "a", "t", "e", " ", "C", "o", "r", "p">>
      [] str = "Peachtree Ltd" ->
          <<"P", "e", "a", "c", "h", "t", "r", "e", "e", " ", "L", "t",
          "d">>
      [] str = "L L C" ->
          <<"L", " ", "L", " ", "C">>
      [] str = "12 Oak St, Atlanta, GA" ->
          <<"1", "2", " ", "O", "a", "k", " ", "S", "t", ",", " ", "A", "t",
          "l", "a", "n", "t", "a", ",", " ", "G", "A">>
      [] str = "12 Oak Street, Atlanta, GA" ->
          <<"1", "2", " ", "O", "a", "k", " ", "S", "t", "r", "e", "e", "t",
          ",", " ", "A", "t", "l", "a", "n", "t", "a", ",", " ", "G", "A">>
      [] str = "9 Elm Ave, Marietta, GA" ->
          <<"9", " ", "E", "l", "m", " ", "A", "v", "e", ",", " ", "M", "a",
          "r", "i", "e", "t", "t", "a", ",", " ", "G", "A">>
      [] str = "5 Pine Rd,Decatur,GA" ->
          <<"5", " ", "P", "i", "n", "e", " ", "R", "d", ",", "D", "e", "c",
          "a", "t", "u", "r", ",", "G", "A">>
      [] str = "77 Main St" ->
          <<"7", "7", " ", "M", "a", "i", "n", " ", "S", "t">>
      [] str = "Suite 4, 3 Bay St,  Savannah , GA" ->
          <<"S", "u", "i", "t", "e", " ", "4", ",", " ", "3", " ", "B", "a",
          "y", " ", "S", "t", ",", " ", " ", "S", "a", "v", "a", "n", "n",
          "a", "h", " ", ",", " ", "G", "A">>
      [] str = "Atlanta, GA" ->
          <<"A", "t", "l", "a", "n", "t", "a", ",", " ", "G", "A">>
      [] str = "Fulton County" ->
          <<"F", "u", "l", "t", "o", "n", " ", "C", "o", "u", "n", "t",
          "y">>
      [] str = "Cobb County" ->
          <<"C", "o", "b", "b", " ", "C", "o", "u", "n", "t", "y">>
      [] str = "Gwinnett County" ->
          <<"G", "w", "i", "n", "n", "e", "t", "t", " ", "C", "o", "u", "n", "t", "y">>
      [] str = "DeKalb County" ->
          <<"D", "e", "K", "a", "l", "b", " ", "C", "o", "u", "n", "t", "y">>
      [] str = "FULTON COUNTY" ->
          <<"F", "U", "L", "T", "O", "N", " ", "C", "O", "U", "N", "T", "Y">>
      [] str = "" -> <<>>

UpperLetters ==
    <<"A", "B", "C", "D", "E", "F", "G", "H", "I", "J", "K", "L", "M", "N",
    "O", "P", "Q", "R", "S", "T", "U", "V", "W", "X", "Y", "Z">>

LowerLetters ==
    <<"a", "b", "c", "d", "e", "f", "g", "h", "i", "j", "k", "l", "m", "n",
    "o", "p", "q", "r", "s", "t", "u", "v", "w", "x", "y", "z">>

LowerChar(c) ==
    IF \E k \in DOMAIN UpperLetters : UpperLetters[k] = c
    THEN LowerLetters[CHOOSE k \in DOMAIN UpperLetters : UpperLetters[k] = c]
    ELSE c

\* str.lower()
Lower(s) == [i \in DOMAIN s |-> LowerChar(s[i])]

\* sub in s
Contains(s, sub) ==
    \E i \in 1..(Len(s) - Len(sub) + 1) : SubSeq(s, i, i + Len(sub) - 1) = sub

Whitespace == {" ", "\t", "\n"}

\* str.strip()
RECURSIVE LStrip(_)
LStrip(s) ==
    IF s # <<>> /\ Head(s) \in Whitespace THEN LStrip(Tail(s)) ELSE s

RECURSIVE RStrip(_)
RStrip(s) ==
    IF s # <<>> /\ s[Len(s)] \in Whitespace
    THEN RStrip(SubSeq(s, 1, Len(s) - 1)) ELSE s

Strip(s) == RStrip(LStrip(s))

\* str.split(sep) for a one-character sep: the segments between the
\* separators, empty ones included.
RECURSIVE Split(_, _)
Split(s, sep) ==
    IF \A i \in DOMAIN s : s[i] # sep THEN <<s>>
    ELSE LET k == CHOOSE i \in DOMAIN s :
                      s[i] = sep /\ \A j \in 1..(i - 1) : s[j] # sep
         IN  <<SubSeq(s, 1, k - 1)>> \o Split(SubSeq(s, k + 1, Len(s)), sep)

\* sep.join(parts)
RECURSIVE Join(_, _)
Join(parts, sep) ==
    IF parts = <<>> THEN <<>>
    ELSE IF Len(parts) = 1 THEN parts[1]
    ELSE parts[1] \o sep \o Join(Tail(parts), sep)

\* Series.unique(): the distinct values in order of first appearance.
RECURSIVE Unique(_)
Unique(s) ==
    IF s = <<>> THEN <<>>
    ELSE LET u == Unique(SubSeq(s, 1, Len(s) - 1))
         IN  IF \E i \in DOMAIN u : u[i] = s[Len(s)] THEN u
             ELSE Append(u, s[Len(s)])

(***************************************************************************)
(* InvestorExporter._extract_contact_info and its helpers                  *)
(***************************************************************************)
BusinessWords ==
    {<<"l", "l", "c">>, <<"i", "n", "c">>, <<"c", "o", "r", "p">>,
     <<"l", "t", "d">>}

TrustWords == {<<"t", "r", "u", "s", "t">>, <<"e", "s", "t", "a", "t", "e">>}

\* The two tests in the opposite order.
infer_business_type_trust_first(name) ==
    LET name_lower == Lower(name)
    IN  IF \E x \in TrustWords : Contains(name_lower, x)
        THEN "Trust/Entity"
        ELSE IF \E x \in BusinessWords : Contains(name_lower, x)
        THEN "Business Entity"
        ELSE "Individual Investor"

infer_business_type(name) ==
    LET name_lower == Lower(name)
    IN  IF \E x \in BusinessWords : Contains(name_lower, x)
        THEN "Business Entity"
        ELSE IF \E x \in TrustWords : Contains(name_lower, x)
        THEN "Trust/Entity"
        ELSE "Individual Investor"

\* The last segment of each address in place of the one before it.
RECURSIVE CitiesLastSegment(_)
CitiesLastSegment(addresses) ==
    IF addresses = <<>> THEN <<>>
    ELSE LET parts == Split(Head(addresses), ",")
         IN  (IF Len(parts) >= 2 THEN <<Strip(parts[Len(parts)])>> ELSE <<>>)
               \o CitiesLastSegment(Tail(addresses))

\* cities: parts[-2].strip() of every address with at least two parts.
RECURSIVE Cities(_)
Cities(addresses) ==
    IF addresses = <<>> THEN <<>>
    ELSE LET parts == Split(Head(addresses), ",")
         IN  (IF Len(parts) >= 2 THEN <<Strip(parts[Len(parts) - 1])>>
              ELSE <<>>)
               \o Cities(Tail(addresses))

Occurrences(s, x) == Cardinality({i \in DOMAIN s : s[i] = x})

\* Counter(cities).most_common(1)[0][0]: the largest count, and among
\* equal counts the city that appeared first.
MostCommon(cities) ==
    cities[CHOOSE i \in DOMAIN cities :
              /\ \A j \in DOMAIN cities :
                    Occurrences(cities, cities[j])
                      <= Occurrences(cities, cities[i])
              /\ \A j \in 1..(i - 1) :
                    Occurrences(cities, cities[j])
                      < Occurrences(cities, cities[i])]

infer_location(flips) ==
    IF flips = <<>> THEN <<>>
    ELSE LET addresses == [n \in DOMAIN flips |-> Chars(flips[n].address)]
             cities == Cities(addresses)
         IN  IF cities # <<>> THEN MostCommon(cities) ELSE <<>>

extract_contact_info(investor_name, flips) ==
    [business_type |-> infer_business_type(Chars(investor_name)),
     likely_location |-> IF flips # <<>> THEN infer_location(flips) ELSE <<>>,
     flip_counties |->
         IF flips # <<>>
         THEN Join([n \in DOMAIN Unique(Column(flips, "county")) |->
                       Chars(Unique(Column(flips, "county"))[n])],
                   <<",", " ">>)
         ELSE <<>>,
     property_types |-> "Residential"]

(***************************************************************************)
(* InvestorExporter.generate_contact_list                                  *)
(***************************************************************************)
\* strftime('%Y-%m-%d'): the zero-padded digits of the date.
Strftime(date) ==
    <<date[1] \div 1000, (date[1] \div 100) % 10, (date[1] \div 10) % 10,
      date[1] % 10, "-", date[2] \div 10, date[2] % 10, "-",
      date[3] \div 10, date[3] % 10>>

\* The date of the last row in place of the earliest.
MinDateLastRow(s) == s[Len(s)]

RECURSIVE MinDate(_)
MinDate(s) ==
    IF Len(s) = 1 THEN s[1]
    ELSE LET m == MinDate(Tail(s))
         IN  IF ToOrdinal(m) < ToOrdinal(Head(s)) THEN m ELSE Head(s)

RECURSIVE MaxDate(_)
MaxDate(s) ==
    IF Len(s) = 1 THEN s[1]
    ELSE LET m == MaxDate(Tail(s))
         IN  IF ToOrdinal(m) > ToOrdinal(Head(s)) THEN m ELSE Head(s)

\* The quotient without the test of avg_hold_days.
EstimatedYearlyVolumeUnguarded(total_profit, avg_hold_days) ==
    IF avg_hold_days[2] = 0 THEN <<0, 1>>
    ELSE Div(total_profit * 12 * avg_hold_days[2], avg_hold_days[1])

\* total_profit * 12 / avg_hold_days if avg_hold_days > 0 else 0
EstimatedYearlyVolume(total_profit, avg_hold_days) ==
    IF RatLess(<<0, 1>>, avg_hold_days)
    THEN (IF avg_hold_days[2] = 0 THEN <<0, 1>>
          ELSE Div(total_profit * 12 * avg_hold_days[2], avg_hold_days[1]))
    ELSE <<0, 1>>

\* The profile dict of one investor row, before profile.update(...).
BaseProfile(investor, investor_flips) ==
        [investor_name |-> investor.investor_name,
         total_flips |-> investor.total_flips,
         total_profit |-> investor.total_profit,
         avg_hold_days |-> investor.avg_hold_days,
         avg_roi |-> investor.avg_roi,
         recent_property_count |-> Len(investor_flips),
         first_flip_date |->
             IF investor_flips # <<>>
             THEN Strftime(MinDate(Column(investor_flips, "buy_date")))
             ELSE <<>>,
         last_flip_date |->
             IF investor_flips # <<>>
             THEN Strftime(MaxDate(Column(investor_flips, "sell_date")))
             ELSE <<>>,
         estimated_yearly_volume |->
             EstimatedYearlyVolume(investor.total_profit,
                                   investor.avg_hold_days),
         likely_loan_needs |->
             IF investor.total_flips > 5 THEN "HIGH" ELSE "MEDIUM"]

\* The profile dict of one investor row, with the contact info merged in.
Profile(investor, flips) ==
    LET investor_flips == SelectSeq(flips,
                              LAMBDA f : f.buyer = investor.investor_name)
        base == BaseProfile(investor, investor_flips)
        info == extract_contact_info(investor.investor_name, investor_flips)
    IN  [f \in DOMAIN base \cup DOMAIN info |->
            IF f \in DOMAIN info THEN info[f] ELSE base[f]]

\* enriched_investors: one profile per investor row, in row order.
EnrichedInvestors(investors, flips) ==
    [n \in 1..Len(investors) |-> Profile(investors[n], flips)]

\* The score without the total_flips term.
PriorityScoreNoFlips(p) ==
    RatAdd(RatScale(<<p.total_profit, 1>>, 3, 10),
           RatScale(p.estimated_yearly_volume, 3, 10))

\* The weights of total_flips and total_profit exchanged.
PriorityScoreSwapped(p) ==
    RatAdd(RatAdd(RatScale(<<p.total_flips, 1>>, 3, 10),
                  RatScale(<<p.total_profit, 1>>, 2, 5)),
           RatScale(p.estimated_yearly_volume, 3, 10))

\* total_flips * 0.4 + total_profit * 0.3 + estimated_yearly_volume * 0.3
PriorityScore(p) ==
    RatAdd(RatAdd(RatScale(<<p.total_flips, 1>>, 2, 5),
                  RatScale(<<p.total_profit, 1>>, 3, 10)),
           RatScale(p.estimated_yearly_volume, 3, 10))

WithPriorityScore(p) ==
    [f \in DOMAIN p \cup {"priority_score"} |->
        IF f = "priority_score" THEN PriorityScore(p) ELSE p[f]]

RECURSIVE InsertContact(_, _, _)
InsertContact(s, x, tie) ==
    IF s = <<>> THEN <<x>>
    ELSE IF RatLess(Head(s).priority_score, x.priority_score)
              \/ (Head(s).priority_score = x.priority_score
                    /\ tie = "reversed")
         THEN <<x>> \o s
         ELSE <<Head(s)>> \o InsertContact(Tail(s), x, tie)

\* contact_df.sort_values('priority_score', ascending=False)
RECURSIVE SortContacts(_, _)
SortContacts(rows, tie) ==
    IF rows = <<>> THEN <<>>
    ELSE InsertContact(SortContacts(SubSeq(rows, 1, Len(rows) - 1), tie),
                       rows[Len(rows)], tie)

\* pd.DataFrame([]) has no columns, so contact_df['total_flips'] raises
\* KeyError when there is no investor row; so does flips_df['buyer'] for
\* an investor row when flips_df is the empty frame of identify_flips.
generate_contact_list_raises(investors, flips) ==
    flips = <<>> \/ EnrichedInvestors(investors, flips) = <<>>

generate_contact_list(investors, flips, tie) ==
    LET enriched == EnrichedInvestors(investors, flips)
    IN  SortContacts([n \in 1..Len(enriched) |->
                         WithPriorityScore(enriched[n])], tie)

(***************************************************************************)
(* HistoricalDataArchiver (src/scripts/archive_data.py).  The clock runs   *)
(* over four days around a year's end; late tells whether the time of day  *)
(* is past midnight.                                                       *)
(***************************************************************************)
DayList == <<<<2023, 12, 30>>, <<2023, 12, 31>>, <<2024, 1, 1>>, <<2024, 1, 2>>>>

\* The source files of archive_today_data that the model follows.
FileTypes == <<"dashboard_data", "flips">>

\* datetime.strptime(date_str, '%Y-%m-%d')
Strptime(str) ==
    <<str[1] * 1000 + str[2] * 100 + str[3] * 10 + str[4],
      str[6] * 10 + str[7], str[9] * 10 + str[10]>>

\* a < b for two strings of digits and dashes of one length.
StrLess(a, b) ==
    \E i \in DOMAIN a :
        /\ \A j \in 1..(i - 1) : a[j] = b[j]
        /\ a[i] # b[i]
        /\ a[i] < b[i]

RECURSIVE InsertDescending(_, _)
InsertDescending(s, x) ==
    IF s = <<>> THEN <<x>>
    ELSE IF StrLess(Head(s), x) THEN <<x>> \o s
    ELSE <<Head(s)>> \o InsertDescending(Tail(s), x)

\* list.sort(reverse=True)
RECURSIVE SortReverse(_)
SortReverse(s) ==
    IF s = <<>> THEN <<>>
    ELSE InsertDescending(SortReverse(SubSeq(s, 1, Len(s) - 1)), s[Len(s)])

\* dest_filename of a source file archived on the day today.
DestFilename(file_type, today) ==
    IF file_type = "dashboard_data" THEN <<"dashboard_data_", today, ".json">>
    ELSE IF file_type = "summary" THEN <<"pipeline_summary_", today, ".json">>
    ELSE <<file_type, "_", today, ".csv">>

\* The index a call starts from when historical_index.json does not exist.
NewIndex ==
    [exists |-> FALSE, available_dates |-> <<>>, files_by_date |-> <<>>,
     last_updated |-> <<>>, total_archives |-> 0]

\* The index without the sort after a new date is appended.
IndexAfterUpdateUnsorted(idx, date, archived_files) ==
    LET dates == IF \E k \in DOMAIN idx.available_dates :
                       idx.available_dates[k] = date
                 THEN idx.available_dates
                 ELSE Append(idx.available_dates, date)
    IN  [exists |-> TRUE,
         available_dates |-> dates,
         files_by_date |->
             [d \in DOMAIN idx.files_by_date \cup {date} |->
                 IF d = date THEN archived_files ELSE idx.files_by_date[d]],
         last_updated |-> now,
         total_archives |-> Len(dates)]

\* The index update_historical_index writes.
IndexAfterUpdate(idx, date, archived_files) ==
    LET dates == IF \E k \in DOMAIN idx.available_dates :
                       idx.available_dates[k] = date
                 THEN idx.available_dates
                 ELSE SortReverse(Append(idx.available_dates, date))
    IN  [exists |-> TRUE,
         available_dates |-> dates,
         files_by_date |->
             [d \in DOMAIN idx.files_by_date \cup {date} |->
                 IF d = date THEN archived_files ELSE idx.files_by_date[d]],
         last_updated |-> now,
         total_archives |-> Len(dates)]

\* date < cutoff_date, with cutoff_date = datetime.now() - timedelta(days).
BeforeCutoff(date_str, days) ==
    LET date == ToOrdinal(Strptime(date_str))
        cutoff_day == ToOrdinal(DayList[now.day]) - days
    IN  date < cutoff_day \/ (date = cutoff_day /\ now.late)

\* The dates of whole days before the cutoff's day, the time of day ignored.
DatesToRemoveWholeDays(idx, days) ==
    {idx.available_dates[k] : k \in
        {n \in DOMAIN idx.available_dates :
            ToOrdinal(Strptime(idx.available_dates[n]))
                < ToOrdinal(DayList[now.day]) - days}}

DatesToRemove(idx, days) ==
    {idx.available_dates[k] : k \in
        {n \in DOMAIN idx.available_dates :
            BeforeCutoff(idx.available_dates[n], days)}}

FilesToDelete(idx, days) ==
    UNION {{idx.files_by_date[d][k] : k \in DOMAIN idx.files_by_date[d]} :
              d \in DatesToRemove(idx, days) \cap DOMAIN idx.files_by_date}

\* The index cleanup_old_data writes.
IndexAfterCleanup(idx, days) ==
    LET gone == DatesToRemove(idx, days)
    IN  [idx EXCEPT !.available_dates =
                        SelectSeq(idx.available_dates, LAMBDA d : d \notin gone),
                    !.files_by_date =
                        [d \in DOMAIN idx.files_by_date \ gone |->
                            idx.files_by_date[d]]]

\* The state of the archiver when the pipeline stages run.
ArchiveIdle ==
    /\ now = [day |-> 1, late |-> FALSE]
    /\ retention_days = 90
    /\ index = NewIndex
    /\ historical_dir = {}

(***************************************************************************)
(* GeorgiaPropertyScraper (src/src/scraper.py).  A frame is its columns    *)
(* and its rows.                                                           *)
(***************************************************************************)
\* The rows a scraper builds in one call (30 to 50 in the code).
RowsPerScrape == 2

\* days_back: the default argument, and what scrape_all_counties passes.
DaysBack == 90

ScrapedColumns ==
    <<"property_id", "address", "sale_date", "sale_price", "buyer", "seller",
      "county", "recording_date">>

\* pd.DataFrame()
EmptyFrame == [columns |-> <<>>, rows |-> <<>>]

CountyConfigs ==
    {[name |-> "Fulton County"], [name |-> "FULTON COUNTY"],
     [name |-> "Gwinnett County"], [name |-> "Cobb County"],
     [name |-> "DeKalb County", url |-> "https://qpublic.example/dekalb"],
     [name |-> "DeKalb County"]}

\* What session.get can do: answer 200, answer another status, or raise.
Responses == {"200", "503", "exception"}

\* The draws of random.choice the model follows: two of the buyers' names in
\* turn, starting from either (and one seller's name for every row).
BuyerDraws ==
    {[k \in 1..RowsPerScrape |->
         IF (k + first) % 2 = 0 THEN "Smith Family Trust"
         ELSE "Johnson Investments LLC"] : first \in {0, 1}}

\* The date that is the given day of the year counted on from month m of
\* year y.
RECURSIVE DateFrom(_, _, _)
DateFrom(y, m, day) ==
    IF day <= DaysInMonth(y, m) THEN <<y, m, day>>
    ELSE IF m < 12 THEN DateFrom(y, m + 1, day - DaysInMonth(y, m))
    ELSE DateFrom(y + 1, 1, day - DaysInMonth(y, m))

\* date + timedelta(days), for days within a year of date.
Timedelta(date, days) ==
    DateFrom(date[1] - 1, 1,
             ToOrdinal(date) + days - ToOrdinal(<<date[1] - 1, 1, 1>>) + 1)

\* f"{n:06d}"
Pad6(n) ==
    <<(n \div 100000) % 10, (n \div 10000) % 10, (n \div 1000) % 10,
      (n \div 100) % 10, (n \div 10) % 10, n % 10>>

\* Row i of a scraper: kind holds what differs from county to county, and
\* the buyer and the seller are drawn by random.choice.
ScrapedRow(kind, base_date, i, buyer, seller) ==
    LET sale_date == Strftime(Timedelta(base_date, i))
    IN  [property_id |-> <<kind.letter>> \o Pad6(i + kind.first_id),
         address |-> IF kind.letter = "X"
                     THEN <<kind.first_id + i, kind.street, kind.county,
                            ", GA 30000">>
                     ELSE <<kind.first_id + i, kind.street, i % 10>>,
         sale_date |-> sale_date,
         sale_price |-> kind.price + i * kind.step,
         buyer |-> buyer,
         seller |-> seller,
         county |-> kind.county,
         recording_date |-> sale_date]

\* pd.DataFrame(data) for the rows of one scraper.
ScrapedFrame(kind, today, days_back, buyers, sellers) ==
    [columns |-> ScrapedColumns,
     rows |-> [k \in 1..RowsPerScrape |->
                  ScrapedRow(kind, Timedelta(today, 0 - days_back), k - 1,
                             buyers[k], sellers[k])]]

scrape_fulton_county(today, days_back, buyers, sellers) ==
    ScrapedFrame([letter |-> "F", first_id |-> 1000,
                  street |-> " Peachtree St NW, Atlanta, GA 3030",
                  price |-> 250000, step |-> 5000,
                  county |-> "Fulton County"],
                 today, days_back, buyers, sellers)

\* A response other than 200, or an exception, ends in pd.DataFrame().
scrape_gwinnett_county(response, today, days_back, buyers, sellers) ==
    IF response = "200"
    THEN ScrapedFrame([letter |-> "G", first_id |-> 2000,
                       street |-> " Sugarloaf Pkwy, Lawrenceville, GA 3004",
                       price |-> 300000, step |-> 4000,
                       county |-> "Gwinnett County"],
                      today, days_back, buyers, sellers)
    ELSE EmptyFrame

scrape_cobb_county(today, days_back, buyers, sellers) ==
    ScrapedFrame([letter |-> "C", first_id |-> 3000,
                  street |-> " Barrett Pkwy, Marietta, GA 3006",
                  price |-> 350000, step |-> 6000, county |-> "Cobb County"],
                 today, days_back, buyers, sellers)

\* county_config['url'] of a configuration without a url raises KeyError
\* inside the try, which ends in pd.DataFrame() as well.
scrape_generic_qpublic(cfg, response, today, days_back, buyers, sellers) ==
    IF "url" \in DOMAIN cfg /\ response = "200"
    THEN ScrapedFrame([letter |-> "X", first_id |-> 4000,
                       street |-> " County Rd, ", price |-> 275000,
                       step |-> 5500, county |-> cfg.name],
                      today, days_back, buyers, sellers)
    ELSE EmptyFrame

\* get_recent_sales: the dispatch on the lower-cased county name.  The
\* scrapers that make a request catch their own exceptions, so the except
\* branch of get_recent_sales is not reached from them.
get_recent_sales(cfg, response, today, days_back, buyers, sellers) ==
    LET name_lower == Lower(Chars(cfg.name))
    IN  IF Contains(name_lower, <<"f", "u", "l", "t", "o", "n">>)
        THEN scrape_fulton_county(today, days_back, buyers, sellers)
        ELSE IF Contains(name_lower,
                         <<"g", "w", "i", "n", "n", "e", "t", "t">>)
        THEN scrape_gwinnett_county(response, today, days_back, buyers,
                                    sellers)
        ELSE IF Contains(name_lower, <<"c", "o", "b", "b">>)
        THEN scrape_cobb_county(today, days_back, buyers, sellers)
        ELSE scrape_generic_qpublic(cfg, response, today, days_back, buyers,
                                    sellers)

\* Whether the scraper of a county makes a request.
MakesRequest(cfg) ==
    LET name_lower == Lower(Chars(cfg.name))
    IN  /\ ~Contains(name_lower, <<"f", "u", "l", "t", "o", "n">>)
        /\ ~Contains(name_lower, <<"c", "o", "b", "b">>)

\* UNIQUE(property_id, sale_date): the stored row a new row conflicts with.
Conflicts(table, row) ==
    \E k \in DOMAIN table :
        /\ table[k].property_id = row.property_id
        /\ table[k].sale_date = row.sale_date

StoredRow(row, id, timestamp) ==
    [id |-> id, property_id |-> row.property_id, address |-> row.address,
     sale_date |-> row.sale_date, sale_price |-> row.sale_price,
     buyer |-> row.buyer, seller |-> row.seller, county |-> row.county,
     recording_date |-> row.recording_date, scrape_timestamp |-> timestamp]

\* INSERT OR REPLACE in place of INSERT OR IGNORE: the last write wins.
RECURSIVE SaveRowsReplace(_, _, _)
SaveRowsReplace(table, rows, timestamp) ==
    IF rows = <<>> THEN table
    ELSE LET row == Head(rows)
             kept == SelectSeq(table,
                         LAMBDA t : ~(/\ t.property_id = row.property_id
                                      /\ t.sale_date = row.sale_date))
             last_id == IF table = <<>> THEN 0 ELSE table[Len(table)].id
         IN  SaveRowsReplace(Append(kept, StoredRow(row, last_id + 1, timestamp)),
                             Tail(rows), timestamp)

\* The table after INSERT OR IGNORE of each row of the frame, in row order.
RECURSIVE SaveRows(_, _, _)
SaveRows(table, rows, timestamp) ==
    IF rows = <<>> THEN table
    ELSE LET row == Head(rows)
             last_id == IF table = <<>> THEN 0 ELSE table[Len(table)].id
         IN  SaveRows(IF Conflicts(table, row) THEN table
                      ELSE Append(table, StoredRow(row, last_id + 1, timestamp)),
                      Tail(rows), timestamp)

ScraperIdle ==
    /\ county_config = [name |-> "Fulton County"]
    /\ result = [called |-> FALSE, response |-> "none", frame |-> EmptyFrame]
    /\ property_sales = <<>>

(***************************************************************************)
(* run_pipeline (src/scripts/run_pipeline.py)                              *)
(***************************************************************************)
\* The counties of the configuration file, in file order.
Counties ==
    <<[id |-> "fulton", config |-> [name |-> "Fulton County"]],
      [id |-> "gwinnett", config |-> [name |-> "Gwinnett County"]],
      [id |-> "south_fulton", config |-> [name |-> "FULTON COUNTY"]],
      [id |-> "cobb", config |-> [name |-> "Cobb County", enabled |-> FALSE]]>>

\* v.get('enabled', True), with no counties_filter.
Enabled(cfg) == IF "enabled" \in DOMAIN cfg THEN cfg.enabled ELSE TRUE

\* The tuple scrape_single_county returns, without the county id: the frame
\* (has_data is FALSE for None) and the error message (<<>> for None).
scrape_single_county(cfg, raised, response, today, buyers, sellers) ==
    IF raised
    THEN [has_data |-> FALSE, data |-> EmptyFrame,
          error |-> <<"Error scraping ", cfg.name, ": ", "exception">>]
    ELSE LET data == get_recent_sales(cfg, response, today, DaysBack, buyers,
                                      sellers)
         IN  IF data.rows = <<>>
             THEN [has_data |-> FALSE, data |-> EmptyFrame, error |-> <<>>]
             ELSE [has_data |-> TRUE, data |-> data, error |-> <<>>]

\* The results scrape_single_county can give for a county.
Outcomes(cfg) ==
    {scrape_single_county(cfg, raised, response, DayList[now.day], buyers,
                          sellers) :
        raised \in BOOLEAN, response \in Responses, buyers \in BuyerDraws,
        sellers \in {[k \in 1..RowsPerScrape |-> "Previous Owner"]}}

\* all_data that starts again from nothing when a county reports an error.
AllDataAfterReset(all, outcome) ==
    IF outcome.error # <<>> THEN <<>>
    ELSE IF outcome.has_data THEN Append(all, outcome.data) ELSE all

\* if data is not None: all_data.append(data)
AllDataAfter(all, outcome) ==
    IF outcome.has_data THEN Append(all, outcome.data) ELSE all

\* if error: errors.append(error)
ErrorsAfter(errs, outcome) ==
    IF outcome.error # <<>> THEN Append(errs, outcome.error) ELSE errs

\* pd.concat(all_data, ignore_index=True)
RECURSIVE Concat(_)
Concat(frames) ==
    IF frames = <<>> THEN <<>>
    ELSE Head(frames).rows \o Concat(Tail(frames))

\* identify_flips on the combined frame raises TypeError when a property has
\* two rows: sale_date holds the strings the scrapers wrote, and the hold
\* period subtracts two of them.
IdentifyFlipsRaises(rows) ==
    \E i, j \in DOMAIN rows : i < j /\ rows[i].property_id = rows[j].property_id

\* The files save_results writes when there is no flip and no investor, in
\* the order it writes them.
ResultFiles == <<"dashboard_data.json", "raw/scrape.csv", "README.md">>

\* An exit code of 0 whatever save_results did.
ExitCodeAlwaysZero(completed) == 0

\* The exit code of run_pipeline once save_results was called: 0 when it
\* returned, 1 when it raised.
ExitCode(completed) == IF completed THEN 0 ELSE 1

RunIdle ==
    /\ max_workers = 1
    /\ futures = <<>>
    /\ all_data = <<>>
    /\ errors = <<>>
    /\ run_pc = "off"
    /\ called = {}
    /\ save_status = "not called"
    /\ output_dir = {}
    /\ exit_code = -1

ScriptsIdle == ArchiveIdle /\ ScraperIdle /\ RunIdle

(***************************************************************************)
(* State machine: each stage is one action.                                *)
(***************************************************************************)
TieOrders == {"stable", "reversed"}

Init ==
    /\ pc = "start"
    /\ config \in Configs
    /\ tie_order \in TieOrders
    /\ df \in SeqsUpTo(TxUniverse, MaxTx)
    /\ flips_df = <<>>
    /\ pairs = <<>>
    /\ investor_stats = <<>>
    /\ contact_df = <<>>
    /\ error = "none"
    /\ ScriptsIdle

\* identify_flips sorting the caller's frame in place.
IdentifyFlipsInPlace ==
    /\ pc = "start"
    /\ flips_df' = identify_flips(df, config, tie_order)
    /\ pairs' = identify_flips_pairs(df, config, tie_order)
    /\ df' = LET order == SortValues(df, [n \in 1..Len(df) |-> n], tie_order)
             IN  [n \in 1..Len(df) |-> df[order[n]]]
    /\ pc' = "identified"
    /\ UNCHANGED <<config, tie_order, investor_stats, contact_df, error>>
    /\ UNCHANGED script_vars

IdentifyFlips ==
    /\ pc = "start"
    /\ flips_df' = identify_flips(df, config, tie_order)
    /\ pairs' = identify_flips_pairs(df, config, tie_order)
    /\ pc' = "identified"
    /\ UNCHANGED <<config, tie_order, df, investor_stats, contact_df, error>>
    /\ UNCHANGED script_vars

AnalyzeInvestors ==
    /\ pc = "identified"
    /\ investor_stats' = analyze_investors(flips_df, tie_order)
    /\ pc' = "analyzed"
    /\ UNCHANGED <<config, tie_order, df, flips_df, pairs, contact_df, error>>
    /\ UNCHANGED script_vars

GenerateContactList ==
    /\ pc = "analyzed"
    /\ IF generate_contact_list_raises(investor_stats, flips_df)
       THEN /\ error' = "KeyError"
            /\ pc' = "failed"
            /\ UNCHANGED contact_df
       ELSE /\ contact_df' =
                  generate_contact_list(investor_stats, flips_df, tie_order)
            /\ pc' = "exported"
            /\ UNCHANGED error
    /\ UNCHANGED <<config, tie_order, df, flips_df, pairs, investor_stats>>
    /\ UNCHANGED script_vars

\* identify_flips on any input frame.
Next == IdentifyFlips

Spec == Init /\ [][Next]_vars

\* The three stages in pipeline order, each on the output of the one before.
NextPipeline == IdentifyFlips \/ AnalyzeInvestors \/ GenerateContactList

SpecPipeline == Init /\ [][NextPipeline]_vars

(***************************************************************************)
(* The aggregation and ranking stages on any flip collection that          *)
(* identify_flips can produce from a sale followed by a later resale.      *)
(***************************************************************************)
FlipUniverse ==
    {MakeFlip(b.property_id, b, s) : <<b, s>> \in
        {q \in TxUniverse \X TxUniverse :
            /\ q[1].property_id = q[2].property_id
            /\ ToOrdinal(q[1].sale_date) < ToOrdinal(q[2].sale_date)
            /\ \E cfg \in Configs :
                 MeetsCriteria(cfg, HoldDays(q[1], q[2]), Profit(q[1], q[2]))}}

\* The flips identify_flips produces, with min_hold_days = 0, from a
\* property bought and resold on one day (hold_days = 0).
SameDayFlips ==
    {MakeFlip(b.property_id, b, s) : <<b, s>> \in
        {q \in TxUniverse \X TxUniverse :
            /\ q[1].property_id = q[2].property_id
            /\ q[1].sale_date = q[2].sale_date
            /\ q[1].sale_date \in {D2, D3}
            /\ q[1].sale_price > 0
            /\ MeetsCriteria(CustomConfig, HoldDays(q[1], q[2]),
                             Profit(q[1], q[2]))}}

InitInvestors ==
    /\ pc = "identified"
    /\ config = DefaultConfig
    /\ tie_order \in TieOrders
    /\ df = <<>>
    /\ flips_df \in SeqsUpTo(FlipUniverse \cup SameDayFlips, MaxFlips)
    /\ pairs = <<>>
    /\ investor_stats = <<>>
    /\ contact_df = <<>>
    /\ error = "none"
    /\ ScriptsIdle

NextInvestors == AnalyzeInvestors \/ GenerateContactList

SpecInvestors == InitInvestors /\ [][NextInvestors]_vars

(***************************************************************************)
(* generate_contact_list on investor rows in any order: the rows of        *)
(* analyze_investors rearranged, or two hand-built summaries with no flip  *)
(* rows behind them.                                                       *)
(***************************************************************************)
RowOrders(s) ==
    {[i \in DOMAIN s |-> s[f[i]]] :
        f \in {g \in [DOMAIN s -> DOMAIN s] :
                  \A i, j \in DOMAIN s : g[i] = g[j] => i = j}}

ScenarioInvestors ==
    <<[investor_name |-> "Acme LLC", total_flips |-> 3,
       total_profit |-> 300000, avg_profit_per_flip |-> <<100000, 1>>,
       avg_hold_days |-> <<100, 1>>, avg_roi |-> <<25, 1>>],
      [investor_name |-> "Jane Doe", total_flips |-> 1,
       total_profit |-> 90000, avg_profit_per_flip |-> <<90000, 1>>,
       avg_hold_days |-> <<90, 1>>, avg_roi |-> <<30, 1>>]>>

InitRank ==
    /\ pc = "analyzed"
    /\ config = DefaultConfig
    /\ tie_order \in TieOrders
    /\ df = <<>>
    /\ flips_df \in SeqsUpTo(FlipUniverse \cup SameDayFlips, MaxFlips)
    /\ pairs = <<>>
    /\ investor_stats \in
          RowOrders(analyze_investors(flips_df, "stable"))
            \cup (IF flips_df = <<>> THEN RowOrders(ScenarioInvestors)
                  ELSE {})
    /\ contact_df = <<>>
    /\ error = "none"
    /\ ScriptsIdle

NextRank == GenerateContactList

SpecRank == InitRank /\ [][NextRank]_vars

(***************************************************************************)
(* generate_contact_list on one investor row, over investor names and      *)
(* flip addresses of varied shape; flips_df also holds flips of another    *)
(* buyer.                                                                  *)
(***************************************************************************)
NameUniverse ==
    {"Acme LLC", "Jane Doe", "Oak Trust", "Vincent Price", "ESTATE HOLDINGS",
     "Family Trust LLC", "Estate Corp", "Peachtree Ltd", "L L C", ""}

AddressUniverse ==
    {"12 Oak St, Atlanta, GA", "9 Elm Ave, Marietta, GA",
     "5 Pine Rd,Decatur,GA", "77 Main St",
     "Suite 4, 3 Bay St,  Savannah , GA", "Atlanta, GA"}

BaseFlip == MakeFlip("P1", Tx("P1", D1, 300000), Tx("P1", D2, 400000))

FlipsBoughtBy(name) ==
    {[BaseFlip EXCEPT !.buyer = name, !.address = a] : a \in AddressUniverse}

\* Flips of the same buyer bought and sold on other dates.
LaterFlipsBoughtBy(name) ==
    {[MakeFlip("P1", Tx("P1", d, 300000), Tx("P1", D3, 400000))
         EXCEPT !.buyer = name] : d \in {D2, D3}}

OtherFlip == [BaseFlip EXCEPT !.buyer = "John Smith"]

\* The investor row of name: its aggregate, or a summary supplied by the
\* caller when flips holds no flip of that buyer.
SummaryOf(name, flips) ==
    IF BuyerGroup(flips, name) # <<>>
    THEN InvestorRow(name, BuyerGroup(flips, name))
    ELSE [ScenarioInvestors[2] EXCEPT !.investor_name = name]

InitContactInfo ==
    /\ pc = "analyzed"
    /\ config = DefaultConfig
    /\ tie_order = "stable"
    /\ df = <<>>
    /\ \E name \in NameUniverse :
          /\ flips_df \in
                SeqsUpTo(FlipsBoughtBy(name) \cup LaterFlipsBoughtBy(name)
                           \cup {OtherFlip}, MaxFlips) \ {<<>>}
          /\ investor_stats = <<SummaryOf(name, flips_df)>>
    /\ pairs = <<>>
    /\ contact_df = <<>>
    /\ error = "none"
    /\ ScriptsIdle

SpecContactInfo == InitContactInfo /\ [][NextRank]_vars

(***************************************************************************)
(* identify_flips on frames with rows that lack a value: the cell is None  *)
(* (NaN), as in a frame built from records without that key.               *)
(***************************************************************************)
Missing == "<NaN>"

WellFormedRows == {Tx("P1", D1, 300000), Tx("P1", D2, 400000)}

MalformedRows ==
    {[t EXCEPT ![f] = Missing] :
        t \in WellFormedRows,
        f \in {"property_id", "buyer", "seller", "county"}}

InitMalformed ==
    /\ pc = "start"
    /\ config \in Configs
    /\ tie_order \in TieOrders
    /\ df \in SeqsUpTo(WellFormedRows \cup MalformedRows, MaxTx)
    /\ flips_df = <<>>
    /\ pairs = <<>>
    /\ investor_stats = <<>>
    /\ contact_df = <<>>
    /\ error = "none"
    /\ ScriptsIdle

SpecMalformed == InitMalformed /\ [][Next]_vars

(***************************************************************************)
(* The three stages in pipeline order on the sales of one property.        *)
(***************************************************************************)
StageRows == {Tx("P1", d, p) : d \in Dates, p \in {300000, 400000}}

InitStages ==
    /\ pc = "start"
    /\ config \in Configs
    /\ tie_order \in TieOrders
    /\ df \in SeqsUpTo(StageRows, MaxTx)
    /\ flips_df = <<>>
    /\ pairs = <<>>
    /\ investor_stats = <<>>
    /\ contact_df = <<>>
    /\ error = "none"
    /\ ScriptsIdle

SpecStages == InitStages /\ [][NextPipeline]_vars

(***************************************************************************)
(* The archiver as a state machine (src/scripts/archive_data.py): the      *)
(* clock advances, archive_today_data runs, and update_historical_index    *)
(* and cleanup_old_data are also called on their own.                      *)
(***************************************************************************)
\* The pipeline stages are not running.
PipelineOff ==
    /\ pc = "off"
    /\ config = DefaultConfig
    /\ tie_order = "stable"
    /\ df = <<>>
    /\ flips_df = <<>>
    /\ pairs = <<>>
    /\ investor_stats = <<>>
    /\ contact_df = <<>>
    /\ error = "none"

pipeline_vars == <<pc, config, tie_order, df, flips_df, pairs, investor_stats,
                   contact_df, error>>

\* The lists archive_today_data can build on one day: the source files that
\* exist and were copied, in the order of source_files.
RECURSIVE Archived(_, _, _)
Archived(types, copied, today) ==
    IF types = <<>> THEN <<>>
    ELSE (IF Head(types) \in copied
          THEN <<DestFilename(Head(types), today)>> ELSE <<>>)
         \o Archived(Tail(types), copied, today)

LatestFilename(file_type) ==
    IF file_type \in {"dashboard_data", "summary"}
    THEN <<file_type, "_latest", ".json">>
    ELSE <<file_type, "_latest", ".csv">>

TypeSet == {FileTypes[k] : k \in DOMAIN FileTypes}

InitArchive ==
    /\ PipelineOff
    /\ now = [day |-> 1, late |-> FALSE]
    /\ retention_days \in {0, 1}
    /\ index = NewIndex
    /\ historical_dir = {}
    /\ ScraperIdle
    /\ RunIdle

\* Time passes: later the same day, or midnight of the next day.
Tick ==
    /\ \/ now.late = FALSE /\ now' = [now EXCEPT !.late = TRUE]
       \/ /\ now.day < Len(DayList)
          /\ now' = [day |-> now.day + 1, late |-> FALSE]
    /\ UNCHANGED <<retention_days, index, historical_dir, pipeline_vars,
                   scraper_vars, run_vars>>

UpdateHistoricalIndex(date, archived_files) ==
    /\ index' = IndexAfterUpdate(index, date, archived_files)
    /\ UNCHANGED <<now, retention_days, historical_dir, pipeline_vars,
                   scraper_vars, run_vars>>

\* update_historical_index called with any date and file list.
UpdateAnyDate ==
    \E date \in {Strftime(DayList[k]) : k \in DOMAIN DayList},
       copied \in SUBSET TypeSet :
        UpdateHistoricalIndex(date, Archived(FileTypes, copied, date))

CleanupOldData ==
    /\ index.exists
    /\ index' = IndexAfterCleanup(index, retention_days)
    /\ historical_dir' = historical_dir \ FilesToDelete(index, retention_days)
    /\ UNCHANGED <<now, retention_days, pipeline_vars, scraper_vars,
                   run_vars>>

\* archive_today_data: the copies, then update_historical_index, then
\* cleanup_old_data.
ArchiveTodayData ==
    \E copied \in SUBSET TypeSet :
        LET today == Strftime(DayList[now.day])
            archived == Archived(FileTypes, copied, today)
            updated == IndexAfterUpdate(index, today, archived)
            written == historical_dir
                           \cup {archived[k] : k \in DOMAIN archived}
                           \cup {LatestFilename(t) : t \in copied}
        IN  /\ index' = IndexAfterCleanup(updated, retention_days)
            /\ historical_dir' =
                   written \ FilesToDelete(updated, retention_days)
            /\ UNCHANGED <<now, retention_days, pipeline_vars, scraper_vars,
                           run_vars>>

\* Sequences of update_historical_index calls.
NextIndex == Tick \/ UpdateAnyDate

SpecIndex == InitArchive /\ [][NextIndex]_vars

\* The daily archive runs, with cleanup_old_data also called on its own.
NextArchive == Tick \/ ArchiveTodayData \/ CleanupOldData

SpecArchive == InitArchive /\ [][NextArchive]_vars

(***************************************************************************)
(* The scraper as a state machine (src/src/scraper.py): get_recent_sales   *)
(* of one county's scraper and save_to_database of the frame it returned,  *)
(* from the day before the last day of the clock on.                       *)
(***************************************************************************)
InitScraper ==
    /\ PipelineOff
    /\ now = [day |-> Len(DayList) - 1, late |-> FALSE]
    /\ retention_days = 90
    /\ index = NewIndex
    /\ historical_dir = {}
    /\ county_config \in CountyConfigs
    /\ result = [called |-> FALSE, response |-> "none", frame |-> EmptyFrame]
    /\ property_sales = <<>>
    /\ RunIdle

GetRecentSales ==
    \E response \in Responses,
       buyers \in BuyerDraws,
       sellers \in {[k \in 1..RowsPerScrape |-> "Previous Owner"]} :
        /\ MakesRequest(county_config) \/ response = "200"
        /\ result' =
               [called |-> TRUE,
                response |-> IF MakesRequest(county_config)
                             THEN response ELSE "none",
                frame |-> get_recent_sales(county_config, response,
                                           DayList[now.day], DaysBack, buyers,
                                           sellers)]
        /\ UNCHANGED <<county_config, property_sales, archive_vars,
                       pipeline_vars, run_vars>>

SaveToDatabase ==
    /\ result.called
    /\ property_sales' = SaveRows(property_sales, result.frame.rows, now)
    /\ UNCHANGED <<county_config, result, archive_vars, pipeline_vars,
                   run_vars>>

NextScraper == Tick \/ GetRecentSales \/ SaveToDatabase

SpecScraper == InitScraper /\ [][NextScraper]_vars

(***************************************************************************)
(* run_pipeline as a state machine (src/scripts/run_pipeline.py): the      *)
(* configuration is loaded, the counties are scraped one after another or  *)
(* by worker threads whose results the main thread collects as they        *)
(* complete, the stages run on the combined frame, and the results are     *)
(* saved.                                                                  *)
(***************************************************************************)
InitRun ==
    /\ PipelineOff
    /\ ArchiveIdle
    /\ ScraperIdle
    /\ max_workers \in {1, 2}
    /\ futures = <<>>
    /\ all_data = <<>>
    /\ errors = <<>>
    /\ run_pc = "load"
    /\ called = {}
    /\ save_status = "not called"
    /\ output_dir = {}
    /\ exit_code = -1

stage_vars == <<pc, config, tie_order, pairs, contact_df, error>>

\* load_county_configs returns the counties, or raises FileNotFoundError or
\* ValueError, which run_pipeline answers with exit code 1.
LoadCountyConfigs ==
    /\ run_pc = "load"
    /\ \/ /\ futures' = [k \in {n \in DOMAIN Counties :
                                   Enabled(Counties[n].config)} |->
                            [status |-> "pending", has_data |-> FALSE,
                             data |-> EmptyFrame, error |-> <<>>]]
          /\ run_pc' = "scrape"
          /\ UNCHANGED exit_code
       \/ /\ run_pc' = "returned"
          /\ exit_code' = 1
          /\ UNCHANGED futures
    /\ UNCHANGED <<max_workers, all_data, errors, called, save_status,
                   output_dir, df, flips_df, investor_stats, stage_vars,
                   archive_vars, scraper_vars>>

FirstPending(k) ==
    /\ k \in DOMAIN futures
    /\ futures[k].status = "pending"
    /\ \A n \in DOMAIN futures : n < k => futures[n].status # "pending"

\* One iteration of the sequential loop: the next county is scraped and its
\* result goes into the two lists.
ScrapeSequential ==
    /\ run_pc = "scrape"
    /\ max_workers = 1
    /\ \E k \in DOMAIN futures : \E outcome \in Outcomes(Counties[k].config) :
           /\ FirstPending(k)
           /\ futures' = [futures EXCEPT ![k] =
                  [status |-> "collected", has_data |-> outcome.has_data,
                   data |-> outcome.data, error |-> outcome.error]]
           /\ all_data' = AllDataAfter(all_data, outcome)
           /\ errors' = ErrorsAfter(errors, outcome)
    /\ UNCHANGED <<max_workers, run_pc, called, save_status, output_dir,
                   exit_code, df, flips_df, investor_stats, stage_vars,
                   archive_vars, scraper_vars>>

\* A free worker thread takes the next submitted county from the queue.
StartWorker ==
    /\ run_pc = "scrape"
    /\ max_workers # 1
    /\ Cardinality({k \in DOMAIN futures : futures[k].status = "running"})
           < max_workers
    /\ \E k \in DOMAIN futures :
           /\ FirstPending(k)
           /\ futures' = [futures EXCEPT ![k].status = "running"]
    /\ UNCHANGED <<max_workers, all_data, errors, run_pc, called, save_status,
                   output_dir, exit_code, df, flips_df, investor_stats,
                   stage_vars, archive_vars, scraper_vars>>

\* A worker thread returns from scrape_single_county: its future is done.
FinishWorker ==
    /\ run_pc = "scrape"
    /\ \E k \in {n \in DOMAIN futures : futures[n].status = "running"} :
         \E outcome \in Outcomes(Counties[k].config) :
           futures' = [futures EXCEPT ![k] =
               [status |-> "done", has_data |-> outcome.has_data,
                data |-> outcome.data, error |-> outcome.error]]
    /\ UNCHANGED <<max_workers, all_data, errors, run_pc, called, save_status,
                   output_dir, exit_code, df, flips_df, investor_stats,
                   stage_vars, archive_vars, scraper_vars>>

\* The main thread takes a completed future from as_completed.
CollectResult ==
    /\ run_pc = "scrape"
    /\ \E k \in DOMAIN futures :
           /\ futures[k].status = "done"
           /\ futures' = [futures EXCEPT ![k].status = "collected"]
           /\ all_data' = AllDataAfter(all_data, futures[k])
           /\ errors' = ErrorsAfter(errors, futures[k])
    /\ UNCHANGED <<max_workers, run_pc, called, save_status, output_dir,
                   exit_code, df, flips_df, investor_stats, stage_vars,
                   archive_vars, scraper_vars>>

\* After scrape_counties: exit code 1 when all_data is empty; otherwise the
\* frames are combined and identify_flips, analyze_investors and
\* calculate_statistics run on the result.  The scraped frames have one row
\* per property, so a combined frame on which identify_flips does not raise
\* gives no flip and no investor.
RunStages ==
    /\ run_pc = "scrape"
    /\ \A k \in DOMAIN futures : futures[k].status = "collected"
    /\ IF all_data = <<>>
       THEN /\ run_pc' = "returned"
            /\ exit_code' = 1
            /\ UNCHANGED <<called, df, flips_df, investor_stats>>
       ELSE /\ df' = Concat(all_data)
            /\ IF IdentifyFlipsRaises(Concat(all_data))
               THEN /\ called' = {"identify_flips"}
                    /\ run_pc' = "returned"
                    /\ exit_code' = 1
                    /\ UNCHANGED <<flips_df, investor_stats>>
               ELSE /\ called' = {"identify_flips", "analyze_investors"}
                    /\ flips_df' = <<>>
                    /\ investor_stats' = <<>>
                    /\ run_pc' = "save"
                    /\ UNCHANGED exit_code
    /\ UNCHANGED <<max_workers, futures, all_data, errors, save_status,
                   output_dir, stage_vars, archive_vars, scraper_vars>>

\* save_results writes its files in order; a write that fails may leave its
\* file behind, and the exception is raised again.  run_pipeline returns 0
\* after save_results returned and 1 after it raised.
SaveResults ==
    /\ run_pc = "save"
    /\ called' = called \cup {"save_results"}
    /\ \E n \in 0..Len(ResultFiles) :
           \/ /\ n = Len(ResultFiles)
              /\ output_dir' = {ResultFiles[k] : k \in 1..n}
              /\ save_status' = "completed"
              /\ exit_code' = ExitCode(TRUE)
           \/ /\ n < Len(ResultFiles)
              /\ output_dir' \in {{ResultFiles[k] : k \in 1..n},
                                  {ResultFiles[k] : k \in 1..(n + 1)}}
              /\ save_status' = "raised"
              /\ exit_code' = ExitCode(FALSE)
    /\ run_pc' = "returned"
    /\ UNCHANGED <<max_workers, futures, all_data, errors, df, flips_df,
                   investor_stats, stage_vars, archive_vars, scraper_vars>>

\* KeyboardInterrupt before run_pipeline has returned: exit code 130.
Interrupt ==
    /\ run_pc \in {"load", "scrape", "save"}
    /\ run_pc' = "returned"
    /\ exit_code' = 130
    /\ UNCHANGED <<max_workers, futures, all_data, errors, called,
                   save_status, output_dir, df, flips_df, investor_stats,
                   stage_vars, archive_vars, scraper_vars>>

NextRun ==
    \/ LoadCountyConfigs
    \/ ScrapeSequential
    \/ StartWorker
    \/ FinishWorker
    \/ CollectResult
    \/ RunStages
    \/ SaveResults
    \/ Interrupt

SpecRun == InitRun /\ [][NextRun]_vars

(***************************************************************************)
(* Properties of identify_flips (specification Spec).                      *)
(***************************************************************************)
Identified == pc # "start"

Properties == {PropertyOrder[k] : k \in DOMAIN PropertyOrder}

RowsOf(pid) == {i \in DOMAIN df : df[i].property_id = pid}

SameProperty(i, j) == df[i].property_id = df[j].property_id

DateOf(i) == ToOrdinal(df[i].sale_date)

\* Row i as buy and row j as sell satisfy both configured ranges.
PairMeets(i, j) ==
    LET hold == DateOf(j) - DateOf(i)
        gain == df[j].sale_price - df[i].sale_price
    IN  /\ config.min_hold_days <= hold /\ hold <= config.max_hold_days
        /\ config.min_profit <= gain /\ gain <= config.max_profit

\* A Flip was appended for row i as buy and row j as sell.
Emitted(i, j) ==
    \E n \in DOMAIN pairs :
        n \in DOMAIN flips_df /\ pairs[n].buy = i /\ pairs[n].sell = j

FlipCount(pid) ==
    Cardinality({n \in DOMAIN flips_df : flips_df[n].property_id = pid})

\* No other row of the property is dated within [date of i, date of j].
NoneWithin(i, j) ==
    \A k \in DOMAIN df \ {i, j} :
        SameProperty(k, i) => ~(DateOf(i) <= DateOf(k) /\ DateOf(k) <= DateOf(j))

\* No row of the property is dated strictly between rows i and j.
NoneStrictlyBetween(i, j) ==
    \A k \in DOMAIN df :
        SameProperty(k, i) => ~(DateOf(i) < DateOf(k) /\ DateOf(k) < DateOf(j))

\* C1: every emitted Flip has min_hold_days <= hold_days <= max_hold_days
\* and min_profit <= profit <= max_profit, bounds inclusive.
C1_FlipsWithinRanges ==
    Identified =>
        \A n \in DOMAIN flips_df :
            /\ config.min_hold_days <= flips_df[n].hold_days
            /\ flips_df[n].hold_days <= config.max_hold_days
            /\ config.min_profit <= flips_df[n].profit
            /\ flips_df[n].profit <= config.max_profit

\* A run that emitted a Flip on the inclusive upper hold bound and
\* rejected another pair of the same property.
C1_Witness ==
    /\ pc = "identified"
    /\ \E n \in DOMAIN flips_df :
           flips_df[n].hold_days = config.max_hold_days
    /\ \E i, j \in DOMAIN df :
           /\ i # j /\ SameProperty(i, j) /\ DateOf(i) < DateOf(j)
           /\ ~PairMeets(i, j)

\* C2 as stated: every ordered pair (buy before sell in the property's
\* sorted sequence, adjacent or not) that satisfies both ranges yields a
\* Flip.
C2_AllOrderedPairsEmitted ==
    Identified =>
        \A pid \in Properties :
            LET g == SortValues(df, GroupRows(df, pid, 1), tie_order)
            IN  \A a, b \in DOMAIN g :
                    (a < b /\ PairMeets(g[a], g[b])) => Emitted(g[a], g[b])

\* C2 amended: only transactions that are consecutive in the property's
\* date order are paired.  Two transactions of a property with no other
\* transaction of that property dated from the first to the second yield a
\* Flip whenever they satisfy both ranges, and no Flip is emitted for a pair
\* with a transaction of the property dated strictly between them.
C2_ConsecutivePairsOnly ==
    Identified =>
        \A i, j \in DOMAIN df :
            (i # j /\ SameProperty(i, j)) =>
                /\ (DateOf(i) < DateOf(j) /\ NoneWithin(i, j)
                      /\ PairMeets(i, j)) => Emitted(i, j)
                /\ Emitted(i, j) =>
                      /\ PairMeets(i, j)
                      /\ DateOf(i) <= DateOf(j)
                      /\ NoneStrictlyBetween(i, j)

\* A property with three sales where the first and the second gave a Flip
\* and the first and the third, which also satisfy both ranges, did not.
C2_Witness ==
    /\ pc = "identified"
    /\ \E i, j, k \in DOMAIN df :
           /\ SameProperty(i, j) /\ SameProperty(i, k)
           /\ DateOf(i) < DateOf(k) /\ DateOf(k) < DateOf(j)
           /\ PairMeets(i, j) /\ ~Emitted(i, j)
           /\ PairMeets(i, k) /\ Emitted(i, k)

\* The rows of property pid are one sale on buy_date at buy_price and one
\* on sell_date at sell_price.
TwoSales(pid, buy_date, buy_price, sell_date, sell_price) ==
    /\ Cardinality(RowsOf(pid)) = 2
    /\ \E i, j \in RowsOf(pid) :
           /\ df[i].sale_date = buy_date /\ df[i].sale_price = buy_price
           /\ df[j].sale_date = sell_date /\ df[j].sale_price = sell_price

DefaultThresholds ==
    /\ config.min_hold_days = 30 /\ config.max_hold_days = 365
    /\ config.min_profit = 70000 /\ config.max_profit = 150000

\* C3: a property with exactly two transactions yields exactly one Flip
\* when the pair is inside both ranges and none otherwise; scenario A
\* (2023-01-01 at 300000, 2023-05-01 at 400000, default thresholds) yields
\* one Flip with hold_days 120 and profit 100000, scenario B (sold at
\* 360000) yields none.
C3_TwoTransactions ==
    Identified =>
        /\ \A pid \in Properties :
               Cardinality(RowsOf(pid)) = 2 =>
                   \A i, j \in RowsOf(pid) :
                       (i # j /\ DateOf(i) <= DateOf(j)) =>
                           IF DateOf(i) < DateOf(j)
                           THEN FlipCount(pid) =
                                    (IF PairMeets(i, j) THEN 1 ELSE 0)
                           ELSE /\ FlipCount(pid) <= 1
                                /\ FlipCount(pid) = 1 =>
                                       (PairMeets(i, j) \/ PairMeets(j, i))
        /\ (DefaultThresholds
              /\ TwoSales("P1", <<2023, 1, 1>>, 300000, <<2023, 5, 1>>, 400000))
             => /\ FlipCount("P1") = 1
                /\ \A n \in DOMAIN flips_df :
                       flips_df[n].property_id = "P1" =>
                           /\ flips_df[n].hold_days = 120
                           /\ flips_df[n].profit = 100000
                           /\ flips_df[n].roi = <<100, 3>>
        /\ (DefaultThresholds
              /\ TwoSales("P1", <<2023, 1, 1>>, 300000, <<2023, 5, 1>>, 360000))
             => FlipCount("P1") = 0

\* Scenario A has run and produced its single Flip.
C3_Witness ==
    /\ pc = "identified"
    /\ DefaultThresholds
    /\ TwoSales("P1", <<2023, 1, 1>>, 300000, <<2023, 5, 1>>, 400000)
    /\ Len(df) = 2
    /\ Len(flips_df) = 1
    /\ flips_df[1].buyer = "Acme LLC" /\ flips_df[1].seller = "Acme LLC"

\* C4: for every emitted Flip, hold_days is the number of days from the
\* buy row's sale_date to the sell row's, profit is sell_price - buy_price
\* and roi is profit / buy_price * 100, the prices being the rows'
\* sale_price (roi is stated where the quotient exists, buy_price # 0).
C4_DerivedFields ==
    Identified =>
        /\ Len(flips_df) = Len(pairs)
        /\ \A n \in DOMAIN flips_df :
               LET f == flips_df[n]
                   b == df[pairs[n].buy]
                   s == df[pairs[n].sell]
               IN  /\ f.buy_price = b.sale_price
                   /\ f.sell_price = s.sale_price
                   /\ f.hold_days = ToOrdinal(s.sale_date) - ToOrdinal(b.sale_date)
                   /\ f.profit = f.sell_price - f.buy_price
                   /\ f.buy_price # 0 =>
                          /\ f.roi[2] > 0
                          /\ f.roi[1] * f.buy_price
                               = f.profit * 100 * f.roi[2]

\* An emitted Flip whose roi is not a whole number.
C4_Witness ==
    /\ pc = "identified"
    /\ \E n \in DOMAIN flips_df :
           /\ flips_df[n].buy_price = 360000
           /\ flips_df[n].profit = 40000
           /\ flips_df[n].roi = <<100, 9>>
           /\ flips_df[n].hold_days = 120

\* C5 as stated: a candidate pair whose buy row has sale_price <= 0 yields
\* no Flip, and nothing is raised.
C5_NoFlipOnNonPositiveBuyPrice ==
    /\ pc = "identified" => error = "none"
    /\ Identified =>
           \A n \in DOMAIN pairs : df[pairs[n].buy].sale_price > 0

\* C6 as stated: each stage returns an empty collection and raises
\* nothing on empty input (specification SpecPipeline).
C6_EmptyInputLaws ==
    /\ (pc # "start" /\ df = <<>>) => flips_df = <<>>
    /\ (pc \in {"analyzed", "exported", "failed"} /\ flips_df = <<>>)
          => investor_stats = <<>>
    /\ (pc \in {"exported", "failed"}
          /\ investor_stats = <<>> /\ flips_df = <<>>)
          => (pc = "exported" /\ error = "none" /\ contact_df = <<>>)

\* C7: a property_id with fewer than two input transactions has no Flip
\* in the output, whatever the other rows are.
C7_FewerThanTwoTransactions ==
    Identified =>
        \A pid \in Properties :
            Cardinality(RowsOf(pid)) < 2 => FlipCount(pid) = 0

\* A run where P2 has a single sale that, paired with a sale of P1, would
\* satisfy both ranges, and P1 produced a Flip.
C7_Witness ==
    /\ pc = "identified"
    /\ Cardinality(RowsOf("P2")) = 1
    /\ FlipCount("P1") = 1
    /\ \E i \in RowsOf("P1"), j \in RowsOf("P2") : PairMeets(i, j)

\* C8 as stated: a buy row that satisfies both ranges with two or more
\* later sell rows of its property yields one Flip for each of them.
C8_OneFlipPerValidSell ==
    Identified =>
        \A i, j, k \in DOMAIN df :
            (/\ j # k /\ SameProperty(i, j) /\ SameProperty(i, k)
             /\ DateOf(i) < DateOf(j) /\ DateOf(i) < DateOf(k)
             /\ PairMeets(i, j) /\ PairMeets(i, k))
                => (Emitted(i, j) /\ Emitted(i, k))

\* C8 amended: a buy row is paired only with the row that directly follows
\* it in the property's sorted sequence, so no row is the buy of more than
\* one emitted Flip, even when it satisfies both ranges with several later
\* sells.
C8_BuyInAtMostOneFlip ==
    Identified =>
        \A m, n \in DOMAIN pairs : m # n => pairs[m].buy # pairs[n].buy

\* A buy row that satisfies both ranges with two later sells and is in
\* the Flip of the earlier one only.
C8_Witness ==
    /\ pc = "identified"
    /\ \E i, j, k \in DOMAIN df :
           /\ SameProperty(i, j) /\ SameProperty(i, k)
           /\ DateOf(i) < DateOf(j) /\ DateOf(j) < DateOf(k)
           /\ PairMeets(i, j) /\ PairMeets(i, k)
           /\ Emitted(i, j) /\ ~Emitted(i, k)
           /\ Len(flips_df) = 1

(***************************************************************************)
(* Properties of analyze_investors (specification SpecInvestors).          *)
(***************************************************************************)
Analyzed == pc \in {"analyzed", "exported", "failed"}

FlipsOfBuyer(name) == {n \in DOMAIN flips_df : flips_df[n].buyer = name}

RECURSIVE IdxSumInt(_, _)
IdxSumInt(field, S) ==
    IF S = {} THEN 0
    ELSE LET n == CHOOSE n \in S : TRUE
         IN  flips_df[n][field] + IdxSumInt(field, S \ {n})

RECURSIVE IdxSumRat(_, _)
IdxSumRat(field, S) ==
    IF S = {} THEN <<0, 1>>
    ELSE LET n == CHOOSE n \in S : TRUE
         IN  RatAdd(flips_df[n][field], IdxSumRat(field, S \ {n}))

\* C9: in every InvestorProfile, total_flips is the number of input flips
\* whose buyer is investor_name and total_profit is the sum of their
\* profit.
C9_TotalsPerInvestor ==
    Analyzed =>
        \A r \in DOMAIN investor_stats :
            LET p == investor_stats[r]
                S == FlipsOfBuyer(p.investor_name)
            IN  /\ p.total_flips = Cardinality(S)
                /\ p.total_profit = IdxSumInt("profit", S)

\* Two investors, one of them with two flips of one property that differ
\* in profit.
C9_Witness ==
    /\ pc = "analyzed"
    /\ Len(investor_stats) = 2
    /\ \E r \in DOMAIN investor_stats :
           /\ investor_stats[r].total_flips = 2
           /\ \E m, n \in FlipsOfBuyer(investor_stats[r].investor_name) :
                  /\ flips_df[m].profit # flips_df[n].profit
                  /\ flips_df[m].property_id = flips_df[n].property_id

\* C10: in every InvestorProfile, avg_roi is the mean of the roi of the
\* investor's flips, avg_hold_days the mean of their hold_days, and
\* avg_profit_per_flip is total_profit / total_flips.
C10_AveragesPerInvestor ==
    Analyzed =>
        \A r \in DOMAIN investor_stats :
            LET p == investor_stats[r]
                S == FlipsOfBuyer(p.investor_name)
            IN  /\ RatScale(p.avg_roi, Cardinality(S), 1)
                     = IdxSumRat("roi", S)
                /\ p.avg_hold_days[2] > 0
                /\ p.avg_hold_days[1] * Cardinality(S)
                     = IdxSumInt("hold_days", S) * p.avg_hold_days[2]
                /\ p.avg_profit_per_flip[2] > 0
                /\ p.avg_profit_per_flip[1] * p.total_flips
                     = p.total_profit * p.avg_profit_per_flip[2]

\* An investor with two flips that differ in roi, in buy_price and in
\* hold_days.
C10_Witness ==
    /\ pc = "analyzed"
    /\ \E r \in DOMAIN investor_stats :
           /\ investor_stats[r].total_flips = 2
           /\ \E m, n \in FlipsOfBuyer(investor_stats[r].investor_name) :
                  /\ flips_df[m].roi[2] > 0 /\ flips_df[n].roi[2] > 0
                  /\ flips_df[m].roi # flips_df[n].roi
                  /\ flips_df[m].buy_price # flips_df[n].buy_price
                  /\ flips_df[m].hold_days # flips_df[n].hold_days

(***************************************************************************)
(* Properties of the order of analyze_investors (SpecInvestors).           *)
(***************************************************************************)
\* Position of a name in ascending string order.
NameRank(name) == CHOOSE k \in DOMAIN BuyerOrder : BuyerOrder[k] = name

\* a comes no later than b in the order total_flips descending, then
\* total_profit descending, then investor_name ascending.
InvestorOrderLeq(a, b) ==
    \/ a.total_flips > b.total_flips
    \/ /\ a.total_flips = b.total_flips
       /\ \/ a.total_profit > b.total_profit
          \/ /\ a.total_profit = b.total_profit
             /\ NameRank(a.investor_name) <= NameRank(b.investor_name)

\* C11: the output of analyze_investors is ordered by total_flips
\* descending, ties by total_profit descending, then by investor_name
\* ascending, whatever the order of the input flips.
C11_TotalOrder ==
    Analyzed =>
        \A a, b \in DOMAIN investor_stats :
            a < b => InvestorOrderLeq(investor_stats[a], investor_stats[b])

(***************************************************************************)
(* Properties of generate_contact_list (SpecInvestors).                    *)
(***************************************************************************)
Exported == pc = "exported"

\* n1 / d1 = n2 / d2 for positive d1, d2: equal whole parts and equal
\* fractional parts.
SameValue(n1, d1, n2, d2) ==
    /\ n1 \div d1 = n2 \div d2
    /\ (n1 % d1) * d2 = (n2 % d2) * d1

\* C12: in every ContactProfile, estimated_yearly_volume is
\* total_profit * 12 / avg_hold_days when avg_hold_days > 0 and 0
\* otherwise; no division by a zero avg_hold_days takes place.
C12_EstimatedYearlyVolume ==
    Exported =>
        /\ error = "none"
        /\ \A r \in DOMAIN contact_df :
               LET p == contact_df[r]
                   h == p.avg_hold_days
                   v == p.estimated_yearly_volume
               IN  /\ h[2] > 0 /\ v[2] > 0
                   /\ IF h[1] > 0
                      THEN SameValue(v[1], v[2],
                                     p.total_profit * 12 * h[2], h[1])
                      ELSE v = <<0, 1>>

\* One investor whose flips all have hold_days 0 and a positive
\* total_profit, next to one whose volume is not a whole number.
C12_Witness ==
    /\ Exported
    /\ \E r \in DOMAIN contact_df :
           /\ contact_df[r].avg_hold_days = <<0, 1>>
           /\ contact_df[r].total_profit > 0
           /\ contact_df[r].estimated_yearly_volume = <<0, 1>>
    /\ \E r \in DOMAIN contact_df :
           /\ contact_df[r].avg_hold_days[1] > 0
           /\ contact_df[r].estimated_yearly_volume[2] > 1

\* Whole part and fractional part (numerator over a[2]) of k * a, for a
\* finite a and a natural k.
WholeOfMultiple(k, a) == k * (a[1] \div a[2]) + (k * (a[1] % a[2])) \div a[2]

FracOfMultiple(k, a) == (k * (a[1] % a[2])) % a[2]

\* C13: in every ContactProfile, priority_score is total_flips * 0.4 +
\* total_profit * 0.3 + estimated_yearly_volume * 0.3 of that same
\* profile (stated as ten times the score).
C13_PriorityScore ==
    Exported =>
        \A r \in DOMAIN contact_df :
            LET p == contact_df[r]
                s == p.priority_score
                v == p.estimated_yearly_volume
            IN  /\ s[2] > 0 /\ v[2] > 0
                /\ WholeOfMultiple(10, s)
                     = 4 * p.total_flips + 3 * p.total_profit
                         + WholeOfMultiple(3, v)
                /\ FracOfMultiple(10, s) * v[2] = FracOfMultiple(3, v) * s[2]

\* Two profiles, one of them with several flips and a volume that is not
\* a whole number.
C13_Witness ==
    /\ Exported
    /\ Len(contact_df) >= 2
    /\ \E r \in DOMAIN contact_df :
           /\ contact_df[r].total_flips >= 2
           /\ contact_df[r].estimated_yearly_volume[2] > 1
           /\ contact_df[r].priority_score[2] > 1

\* C15: of two investor summaries with the same total_profit and the
\* same estimated_yearly_volume, the one with the larger total_flips has
\* the strictly larger priority_score.
C15_ScoreMonotoneInFlips ==
    Exported =>
        /\ \A a, b \in DOMAIN contact_df :
               LET x == contact_df[a]
                   y == contact_df[b]
               IN  (/\ x.total_profit = y.total_profit
                    /\ x.estimated_yearly_volume = y.estimated_yearly_volume
                    /\ x.total_flips > y.total_flips)
                       => RatLess(y.priority_score, x.priority_score)
        /\ \A a \in DOMAIN contact_df :
               LET x == contact_df[a]
               IN  RatLess(x.priority_score,
                           PriorityScore([x EXCEPT !.total_flips = @ + 1]))

\* Two exported profiles with equal total_profit and equal volume, one
\* with two flips and one with a single flip.
C15_Witness ==
    /\ Exported
    /\ \E a, b \in DOMAIN contact_df :
           /\ contact_df[a].total_profit = contact_df[b].total_profit
           /\ contact_df[a].estimated_yearly_volume
                = contact_df[b].estimated_yearly_volume
           /\ contact_df[a].total_flips = 2
           /\ contact_df[b].total_flips = 1

(***************************************************************************)
(* Properties of the order of generate_contact_list (SpecRank).            *)
(***************************************************************************)
\* C14: the exported rows are in descending priority_score order, rows
\* of equal score in ascending investor_name order whatever the order of
\* the input rows; the summary with 3 flips, total_profit 300000 and
\* avg_hold_days 100 comes before the one with 1 flip, 90000 and 90.
C14_RankOrder ==
    Exported =>
        /\ \A a, b \in DOMAIN contact_df :
               a < b =>
                 LET x == contact_df[a]
                     y == contact_df[b]
                 IN  \/ RatLess(y.priority_score, x.priority_score)
                     \/ /\ x.priority_score = y.priority_score
                        /\ NameRank(x.investor_name)
                             <= NameRank(y.investor_name)
        /\ (flips_df = <<>> /\ Len(contact_df) = 2) =>
               /\ contact_df[1].total_flips = 3
               /\ contact_df[2].total_flips = 1

(***************************************************************************)
(* Properties of the contact info (SpecContactInfo).                       *)
(***************************************************************************)
\* Some word of the set occurs in the text, letter case ignored.
HasWord(text, words) ==
    \E w \in words :
        \E i \in 0..(Len(text) - Len(w)) :
            \A k \in DOMAIN w : LowerChar(text[i + k]) = w[k]

\* C16: business_type is defined for every name and decided, letter case
\* ignored, in a fixed precedence: 'Business Entity' when the name
\* contains 'llc', 'inc', 'corp' or 'ltd' (also when it contains 'trust'
\* or 'estate' as well), else 'Trust/Entity' when it contains 'trust' or
\* 'estate', else 'Individual Investor'.
C16_BusinessType ==
    Exported =>
        \A r \in DOMAIN contact_df :
            LET p == contact_df[r]
                text == Chars(p.investor_name)
            IN  p.business_type =
                  IF HasWord(text, BusinessWords) THEN "Business Entity"
                  ELSE IF HasWord(text, TrustWords) THEN "Trust/Entity"
                  ELSE "Individual Investor"

\* A name with a business word in capital letters and a trust word.
C16_Witness ==
    /\ Exported
    /\ \E r \in DOMAIN contact_df :
           LET text == Chars(contact_df[r].investor_name)
           IN  /\ HasWord(text, BusinessWords)
               /\ HasWord(text, TrustWords)
               /\ ~Contains(text, <<"l", "l", "c">>)
               /\ Contains(text, <<"L", "L", "C">>)
               /\ contact_df[r].business_type = "Business Entity"

Commas(text) == {i \in DOMAIN text : text[i] = ","}

Largest(S) == CHOOSE i \in S : \A j \in S : j <= i

\* The text between the last comma and the comma before it (or the start
\* of the text), without the blanks around it.
SecondToLastSegment(text) ==
    LET last == Largest(Commas(text))
        before == Commas(text) \ {last}
        from == IF before = {} THEN 1 ELSE Largest(before) + 1
    IN  Strip(SubSeq(text, from, last - 1))

AddressText(n) == Chars(flips_df[n].address)

\* The flips of a buyer whose address has a second-to-last segment.
Located(name) == {n \in FlipsOfBuyer(name) : Commas(AddressText(n)) # {}}

SegmentCount(name, segment) ==
    Cardinality({n \in Located(name) :
                    SecondToLastSegment(AddressText(n)) = segment})

\* C17: likely_location is the most frequent of the second-to-last
\* comma-delimited segments of the investor's flip addresses (the city,
\* without the blanks around it), and the empty string when the investor
\* has no address with such a segment, in particular no address at all.
C17_LikelyLocation ==
    Exported =>
        \A r \in DOMAIN contact_df :
            LET p == contact_df[r]
                L == Located(p.investor_name)
            IN  IF L = {} THEN p.likely_location = <<>>
                ELSE \E m \in L :
                       /\ p.likely_location
                            = SecondToLastSegment(AddressText(m))
                       /\ \A n \in L :
                             SegmentCount(p.investor_name,
                                 SecondToLastSegment(AddressText(n)))
                               <= SegmentCount(p.investor_name,
                                      p.likely_location)

\* An investor with three flips whose first address names a city that the
\* other two, written with different spacing, outvote.
C17_Witness ==
    /\ Exported
    /\ \E r \in DOMAIN contact_df :
           LET p == contact_df[r]
               L == Located(p.investor_name)
           IN  /\ Cardinality(L) = 3
               /\ SegmentCount(p.investor_name, p.likely_location) = 2
               /\ \E m \in L :
                      /\ \A n \in L : m <= n
                      /\ SecondToLastSegment(AddressText(m))
                           # p.likely_location
               /\ \E m, n \in L :
                      /\ AddressText(m) # AddressText(n)
                      /\ SecondToLastSegment(AddressText(m))
                           = p.likely_location
                      /\ SecondToLastSegment(AddressText(n))
                           = p.likely_location

\* a <= b for two strftime('%Y-%m-%d') strings, position by position.
DateStringLeq(a, b) ==
    \/ a = b
    \/ \E i \in DOMAIN a :
          /\ \A j \in 1..(i - 1) : a[j] = b[j]
          /\ a[i] # b[i]
          /\ a[i] < b[i]

\* C18: in every ContactProfile of an investor with at least one flip
\* (buyer = investor_name), first_flip_date is the earliest buy_date and
\* last_flip_date the latest sell_date of exactly that investor's flips,
\* and first_flip_date <= last_flip_date.
C18_FlipDates ==
    Exported =>
        \A r \in DOMAIN contact_df :
            LET p == contact_df[r]
                S == FlipsOfBuyer(p.investor_name)
            IN  S # {} =>
                  /\ \E m \in S :
                        /\ p.first_flip_date = Strftime(flips_df[m].buy_date)
                        /\ \A n \in S : ToOrdinal(flips_df[m].buy_date)
                                           <= ToOrdinal(flips_df[n].buy_date)
                  /\ \E m \in S :
                        /\ p.last_flip_date = Strftime(flips_df[m].sell_date)
                        /\ \A n \in S : ToOrdinal(flips_df[n].sell_date)
                                           <= ToOrdinal(flips_df[m].sell_date)
                  /\ DateStringLeq(p.first_flip_date, p.last_flip_date)

\* An investor whose earliest purchase is a later row of flips_df than
\* its latest sale, next to a flip of another buyer.
C18_Witness ==
    /\ Exported
    /\ \E n \in DOMAIN flips_df : flips_df[n].buyer = "John Smith"
    /\ \E r \in DOMAIN contact_df :
           LET p == contact_df[r]
               S == FlipsOfBuyer(p.investor_name)
           IN  /\ Cardinality(S) >= 2
               /\ \E m, n \in S :
                      /\ m < n
                      /\ ToOrdinal(flips_df[n].buy_date)
                           < ToOrdinal(flips_df[m].buy_date)
                      /\ p.first_flip_date = Strftime(flips_df[n].buy_date)
                      /\ p.last_flip_date = Strftime(flips_df[m].sell_date)
                      /\ p.first_flip_date # p.last_flip_date

(***************************************************************************)
(* Properties of identify_flips on malformed input (SpecMalformed).        *)
(***************************************************************************)
\* The required fields that a row of the model can lack; sale_date and
\* sale_price are present in every row.
RequiredTextFields == {"property_id", "buyer", "seller", "county"}

LacksRequiredField(row) == \E f \in RequiredTextFields : row[f] = Missing

\* C20: when an input transaction lacks a required field, identify_flips
\* fails with a validation error and returns no Flip collection.
C20_ValidationError ==
    (Identified /\ \E i \in DOMAIN df : LacksRequiredField(df[i])) =>
        /\ error = "ValidationError"
        /\ flips_df = <<>>

(***************************************************************************)
(* Frame conditions of the stages (SpecStages).                            *)
(***************************************************************************)
\* C21: no stage modifies its inputs: identify_flips leaves the
\* transaction frame as it was (rows and order), analyze_investors leaves
\* the flips, generate_contact_list leaves the investors and the flips.
C21_InputsUnchanged ==
    [][/\ pc = "start" => df' = df
       /\ pc = "identified" => flips_df' = flips_df /\ df' = df
       /\ pc = "analyzed" =>
             /\ investor_stats' = investor_stats
             /\ flips_df' = flips_df]_vars

\* All three stages have run on a frame whose rows are not in date order
\* and that yields a flip.
C21_Witness ==
    /\ pc = "exported"
    /\ Len(df) >= 2
    /\ ToOrdinal(df[2].sale_date) < ToOrdinal(df[1].sale_date)
    /\ flips_df # <<>>
    /\ contact_df # <<>>

(***************************************************************************)
(* The partition by buyer (SpecInvestors).                                 *)
(***************************************************************************)
RECURSIVE SumOfRows(_, _)
SumOfRows(rows, field) ==
    IF rows = <<>> THEN 0
    ELSE rows[1][field] + SumOfRows(Tail(rows), field)

\* C29: analyze_investors returns exactly one InvestorProfile per
\* distinct buyer of the flips, investor_name is unique in the output,
\* and the total_flips and total_profit of the profiles add up to the
\* number and to the total profit of the input flips.
C29_PartitionByBuyer ==
    Analyzed =>
        /\ {investor_stats[r].investor_name : r \in DOMAIN investor_stats}
             = {flips_df[n].buyer : n \in DOMAIN flips_df}
        /\ \A a, b \in DOMAIN investor_stats :
               investor_stats[a].investor_name = investor_stats[b].investor_name
                   => a = b
        /\ SumOfRows(investor_stats, "total_flips") = Len(flips_df)
        /\ SumOfRows(investor_stats, "total_profit")
             = SumOfRows(flips_df, "profit")

\* Three flips of two buyers, the flips of one buyer not adjacent.
C29_Witness ==
    /\ pc = "analyzed"
    /\ Len(flips_df) = 3
    /\ Len(investor_stats) = 2
    /\ flips_df[1].buyer = flips_df[3].buyer
    /\ flips_df[1].buyer # flips_df[2].buyer
    /\ flips_df[1].profit # flips_df[3].profit

(***************************************************************************)
(* Provenance of the fields of a Flip (Spec).                              *)
(***************************************************************************)
\* C30: every emitted Flip is built from two distinct transactions of one
\* property_id, the buy not dated after the sell: buy_date, buy_price,
\* buyer, address and county are the buy transaction's, sell_date,
\* sell_price and seller the sell transaction's, property_id the shared
\* one.
C30_FlipProvenance ==
    Identified =>
        \A n \in DOMAIN flips_df :
            \E i, j \in DOMAIN df :
                LET f == flips_df[n]
                    b == df[i]
                    t == df[j]
                IN  /\ i # j
                    /\ i = pairs[n].buy /\ j = pairs[n].sell
                    /\ b.property_id = t.property_id
                    /\ f.property_id = b.property_id
                    /\ ToOrdinal(b.sale_date) <= ToOrdinal(t.sale_date)
                    /\ f.buy_date = b.sale_date /\ f.buy_price = b.sale_price
                    /\ f.buyer = b.buyer /\ f.address = b.address
                    /\ f.county = b.county
                    /\ f.sell_date = t.sale_date
                    /\ f.sell_price = t.sale_price
                    /\ f.seller = t.seller

\* A Flip of one property emitted from a frame that also holds a sale of
\* another property between the two rows, the buy and the sell row
\* differing in address, buyer and seller.
C30_Witness ==
    /\ pc = "identified"
    /\ Len(df) = 3
    /\ \E n \in DOMAIN flips_df :
           /\ pairs[n].buy = 3 /\ pairs[n].sell = 1
           /\ df[2].property_id # df[1].property_id
           /\ df[1].address # df[3].address
           /\ df[1].buyer # df[3].buyer
           /\ df[1].seller # df[3].seller

(***************************************************************************)
(* Properties of the historical index (specifications SpecIndex and        *)
(* SpecArchive).                                                           *)
(***************************************************************************)
\* The dates update_historical_index is called with, and today's.
IndexDates == {Strftime(DayList[k]) : k \in DOMAIN DayList}

Today == Strftime(DayList[now.day])

DatesOf(idx) == {idx.available_dates[k] : k \in DOMAIN idx.available_dates}

NoDuplicateDates(idx) ==
    \A i, j \in DOMAIN idx.available_dates :
        idx.available_dates[i] = idx.available_dates[j] => i = j

MostRecentFirst(idx) ==
    \A i, j \in DOMAIN idx.available_dates :
        i < j => ToOrdinal(Strptime(idx.available_dates[i]))
                     >= ToOrdinal(Strptime(idx.available_dates[j]))

\* C24: after any sequence of update_historical_index calls available_dates
\* has no duplicate date and is sorted most-recent-first, and a call for a
\* date already present replaces that date's files_by_date entry and adds no
\* second entry for the date.
C24_IndexDates ==
    /\ [](NoDuplicateDates(index) /\ MostRecentFirst(index))
    /\ [][\A date \in IndexDates, copied \in SUBSET TypeSet :
              LET files == Archived(FileTypes, copied, date)
              IN  (date \in DatesOf(index)
                     /\ UpdateHistoricalIndex(date, files))
                  => /\ index'.available_dates = index.available_dates
                     /\ DOMAIN index'.files_by_date = DOMAIN index.files_by_date
                     /\ index'.files_by_date[date] = files
                     /\ \A d \in DOMAIN index.files_by_date \ {date} :
                            index'.files_by_date[d] = index.files_by_date[d]]_vars

\* Every day of the clock is indexed, the first one archived after the last,
\* and the entry of one date was written by a call made on a later day.
C24_Witness ==
    /\ Len(index.available_dates) = Len(DayList)
    /\ index.available_dates[1] = Strftime(DayList[Len(DayList)])
    /\ index.files_by_date[Strftime(DayList[1])] = <<>>
    /\ index.files_by_date[Strftime(DayList[2])] # <<>>
    /\ index.last_updated.day = 3
    /\ now.day = 3

\* C25: after any sequence of archive_today_data, update_historical_index and
\* cleanup_old_data operations the stored index has total_archives equal to
\* the length of available_dates, and the keys of files_by_date are exactly
\* the dates of available_dates.
C25_IndexConsistent ==
    index.exists =>
        /\ index.total_archives = Len(index.available_dates)
        /\ DOMAIN index.files_by_date = DatesOf(index)

FilesOf(idx, d) == {idx.files_by_date[d][k] : k \in DOMAIN idx.files_by_date[d]}

\* What cleanup_old_data is claimed to do to an index idx and a directory
\* dir, giving index' and historical_dir'.
CleanedAsClaimed(idx, dir) ==
    /\ \A d \in DatesOf(idx) :
           IF BeforeCutoff(d, retention_days)
           THEN /\ d \notin DatesOf(index')
                /\ FilesOf(idx, d) \cap historical_dir' = {}
           ELSE /\ d \in DatesOf(index')
                /\ index'.files_by_date[d] = idx.files_by_date[d]
                /\ FilesOf(idx, d) \cap dir \subseteq historical_dir'
    /\ DatesOf(index') \subseteq DatesOf(idx)

SameKey(a, b) ==
    a.property_id = b.property_id /\ a.sale_date = b.sale_date

\* C27: after any sequence of save_to_database calls the table holds at most
\* one row per (property_id, sale_date); saving a record whose key is stored
\* leaves the stored rows as they are, and saving the same frame again
\* changes nothing.
C27_FirstWriteWins ==
    /\ [](\A i, j \in DOMAIN property_sales :
              SameKey(property_sales[i], property_sales[j]) => i = j)
    /\ [][SaveToDatabase =>
              /\ \A i \in DOMAIN property_sales :
                     /\ i \in DOMAIN property_sales'
                     /\ property_sales'[i] = property_sales[i]
              /\ SaveRows(property_sales', result.frame.rows, now')
                     = property_sales']_vars

\* The table holds the rows of two days, and the frame scraped last carries,
\* for a key stored at an earlier time, another buyer than the stored row.
C27_Witness ==
    /\ Len(property_sales) = 2 * RowsPerScrape
    /\ property_sales[1].scrape_timestamp # now
    /\ \E i \in DOMAIN property_sales, k \in DOMAIN result.frame.rows :
           /\ SameKey(property_sales[i], result.frame.rows[k])
           /\ property_sales[i].buyer # result.frame.rows[k].buyer
           /\ property_sales[i].scrape_timestamp # now

\* pd.DataFrame(columns=[...]) with the eight columns.
EmptyFrameWithColumns == [columns |-> ScrapedColumns, rows |-> <<>>]

\* C28: however the dispatched county scraper fails (an exception or a
\* response other than 200), get_recent_sales returns the empty frame with
\* the columns property_id, address, sale_date, sale_price, buyer, seller,
\* county, recording_date.
C28_EmptyWithColumns ==
    (result.called /\ result.response \in {"503", "exception"})
        => result.frame = EmptyFrameWithColumns

(***************************************************************************)
(* Properties of run_pipeline (specification SpecRun).                     *)
(***************************************************************************)
AllCollected == \A k \in DOMAIN futures : futures[k].status = "collected"

CollectedCounties == {k \in DOMAIN futures : futures[k].status = "collected"}

SuccessfulCounties == {k \in CollectedCounties : futures[k].has_data}

FailedCounties == {k \in CollectedCounties : futures[k].error # <<>>}

\* The one-to-one assignments of the positions of a list to the counties of
\* a set.
OneToOne(list, counties) ==
    {f \in [DOMAIN list -> counties] :
        /\ \A m, n \in DOMAIN list : f[m] = f[n] => m = n
        /\ \A c \in counties : \E n \in DOMAIN list : f[n] = c}

\* C22: all_data holds exactly the frames of the counties whose scrape gave
\* data, one each, in some order; a county whose scrape raised adds no frame
\* and exactly one error message; and the frame identify_flips is called on
\* is the concatenation of all_data once every county has been collected,
\* whatever the order in which the workers complete.
C22_CollectedData ==
    /\ \E f \in OneToOne(all_data, SuccessfulCounties) :
           \A n \in DOMAIN all_data : all_data[n] = futures[f[n]].data
    /\ \E g \in OneToOne(errors, FailedCounties) :
           \A n \in DOMAIN errors : errors[n] = futures[g[n]].error
    /\ \A k \in FailedCounties : ~futures[k].has_data
    /\ "identify_flips" \in called =>
           /\ AllCollected
           /\ df = Concat(all_data)
           /\ Len(df) = RowsPerScrape * Cardinality(SuccessfulCounties)

\* Two workers; the second county's data was collected before the first
\* county's, the third county's scrape raised, and identify_flips has been
\* called on the combined frame.
C22_Witness ==
    /\ max_workers = 2
    /\ "identify_flips" \in called
    /\ Len(all_data) = 2
    /\ all_data[1] = futures[2].data
    /\ all_data[2] = futures[1].data
    /\ futures[3].error # <<>>
    /\ Len(errors) = 1

====
